---------------------------- MODULE Spec2Model ----------------------------
(***************************************************************************)
(* zkTLS operator bot (src/operator): task discovery by push events and    *)
(* by polling, optimistic task acquisition, the per-task processing guard, *)
(* and the proof verification that reduces a zkTLS payload to a verdict.   *)
(*                                                                         *)
(* The bot is single-threaded JavaScript: an action of this model is the   *)
(* code that runs between two suspension points (an await on an oracle     *)
(* call, on the proof service or on a timer).                              *)
(***************************************************************************)
EXTENDS Integers, Sequences, FiniteSets, TLC

\* ------------------------------------------------------------------ bounds
MaxTasks == 2
MaxCreated == 1
MaxAssigned == 1
MaxFragments == 3
MaxStarts == 3

\* --------------------------------------------------------------- constants
PENDING == 0
ASSIGNED == 1
VALIDATED == 2

TaskIds == 1..MaxTasks
CreatedHandlers == 1..MaxCreated
AssignedHandlers == (MaxCreated + 1)..(MaxCreated + MaxAssigned)
Handlers == CreatedHandlers \cup AssignedHandlers
PollLoop == 0
Procs == {PollLoop} \cup Handlers

VARIABLES
    tasks,            \* oracle: task id -> [status, assignedOperator]
    operatorTasks,    \* oracle: ids ever assigned to this operator, in order
    issuesClaimContract, \* repository: is the lazy claim contract set
    isRunning,        \* controller: the running flag
    listening,        \* controller: are the event listeners registered
    processingTasks,  \* service: the guard set (keys are id strings)
    pc,               \* per activity: the await it is suspended on
    tid,              \* per activity: the task id it works on
    calls,            \* per activity: calls issued by the running function
    ret,              \* per activity: value of the function that returned
    vres,             \* per activity: the proof answer and what verifyPR made of it
    err,              \* per activity: why the oracle failed the pickTask write
    pollList,         \* poll loop: the ids listed by getOperatorTasks
    pollIdx,          \* poll loop: position in pollList / in pendingTasks
    pendingTasks,     \* poll loop: the candidates of this iteration
    vin,              \* validator run: the inputs of verifyPR
    vout,             \* validator run: the result of verifyPR
    single,           \* single-file bot (operator.js): its processTask attempt
    reg,              \* registration run (register/, legacy script)
    lifecycle,        \* controller: the start() calls and the poll loops of a bot
    legacy            \* single-file bot (unnamed/part_001): its poll-driven run

vars == <<tasks, operatorTasks, issuesClaimContract, isRunning,
          listening, processingTasks, pc, tid, calls, ret, vres,
          err, pollList, pollIdx, pendingTasks, vin, vout, single, reg,
          lifecycle, legacy>>

oracleVars == <<tasks, operatorTasks>>
pollVars == <<pollList, pollIdx, pendingTasks>>
validatorVars == <<vin, vout>>
scriptVars == <<single, reg, lifecycle, legacy>>
localVars == <<vres, err>>

\* =========================================================================
\* operator.validator.js : the proof payload and the verdict
\* =========================================================================
NoMatch == "<nomatch>"

\* A JSON value of a context field: a quoted string, a bare JSON literal, or
\* no such field.
Str(s) == [kind |-> "string", text |-> s]
Bare(s) == [kind |-> "literal", text |-> s]
Absent == [kind |-> "absent", text |-> ""]

MergedValues == {Str("true"), Str("false"), Bare("true")}
LoginValues == {Str("alice"), Str("bob")}
IdValues == {Str("7"), Str("8")}

\* What the text of a `context` fragment holds once un-escaped: the fields the
\* validator reads, each optional, inside text that is well-formed JSON or not.
WellFormed ==
    [json : {TRUE},
     merged : MergedValues \cup {Absent},
     login : LoginValues \cup {Absent},
     id : IdValues \cup {Absent}]

Garbled ==
    {[json |-> FALSE, merged |-> Absent, login |-> Absent, id |-> Absent],
     [json |-> FALSE, merged |-> Str("true"), login |-> Str("alice"),
      id |-> Str("7")]}

Fragments == WellFormed \cup Garbled

EmptyRecord == [json |-> TRUE, merged |-> Absent, login |-> Absent, id |-> Absent]

\* A proof subject is missing from the response, or carries the `context`
\* fragments that its serialization contains, in serialization order.
SeqsUpTo(S, n) == UNION {[1..k -> S] : k \in 0..n}

Missing == [present |-> FALSE, contexts |-> <<>>]

Subjects ==
    {Missing} \cup [present : {TRUE}, contexts : SeqsUpTo(Fragments, MaxFragments - 1)]

Payloads ==
    {pl \in [prProofData : Subjects, userProofData : Subjects] :
        Len(pl.prProofData.contexts) + Len(pl.userProofData.contexts)
            <= MaxFragments}

ParseJSONUnchecked(fragment) == [fragment EXCEPT !.json = TRUE]

\* _parseJSONSafely: JSON.parse of the fragment; a parse error yields {}.
ParseJSONSafely(fragment) ==
    IF fragment.json THEN fragment ELSE EmptyRecord

\* String.match of /"<field>"\s*:\s*"(...)"/ on the re-serialized context:
\* the capture needs a quoted value.
RegexCapture(ctx, field) ==
    LET v == ctx[field]
    IN IF v.kind = "string" THEN v.text ELSE NoMatch

VerifyProofDataSelfCompare(prCtx, userCtx) ==
    LET prMerged == RegexCapture(prCtx, "merged")
        prLogin == RegexCapture(prCtx, "login")
        prId == RegexCapture(prCtx, "id")
        userLogin == RegexCapture(userCtx, "login")
        userId == RegexCapture(userCtx, "id")
        isMerged == IF prMerged # NoMatch THEN prMerged = "true" ELSE FALSE
        isValidUser == IF prLogin # NoMatch /\ userLogin # NoMatch
                       THEN prLogin = prLogin ELSE FALSE
        isValidId == IF prId # NoMatch /\ userId # NoMatch
                     THEN prId = userId ELSE FALSE
    IN [isMerged |-> isMerged, isValidUser |-> isValidUser,
        isValidId |-> isValidId,
        isValid |-> isMerged /\ isValidUser /\ isValidId]

VerifyProofDataMergedAnyCase(prCtx, userCtx) ==
    LET prMerged == RegexCapture(prCtx, "merged")
        prLogin == RegexCapture(prCtx, "login")
        prId == RegexCapture(prCtx, "id")
        userLogin == RegexCapture(userCtx, "login")
        userId == RegexCapture(userCtx, "id")
        isMerged == prMerged # NoMatch
        isValidUser == IF prLogin # NoMatch /\ userLogin # NoMatch
                       THEN prLogin = userLogin ELSE FALSE
        isValidId == IF prId # NoMatch /\ userId # NoMatch
                     THEN prId = userId ELSE FALSE
    IN [isMerged |-> isMerged, isValidUser |-> isValidUser,
        isValidId |-> isValidId,
        isValid |-> isMerged /\ isValidUser /\ isValidId]

\* _verifyProofData
VerifyProofData(prCtx, userCtx) ==
    LET prMerged == RegexCapture(prCtx, "merged")
        prLogin == RegexCapture(prCtx, "login")
        prId == RegexCapture(prCtx, "id")
        userLogin == RegexCapture(userCtx, "login")
        userId == RegexCapture(userCtx, "id")
        isMerged == IF prMerged # NoMatch THEN prMerged = "true" ELSE FALSE
        isValidUser == IF prLogin # NoMatch /\ userLogin # NoMatch
                       THEN prLogin = userLogin ELSE FALSE
        isValidId == IF prId # NoMatch /\ userId # NoMatch
                     THEN prId = userId ELSE FALSE
    IN [isMerged |-> isMerged, isValidUser |-> isValidUser,
        isValidId |-> isValidId,
        isValid |-> isMerged /\ isValidUser /\ isValidId]

ContextMatchesBySubject(pl) ==
    LET head(ctxs) == IF ctxs = <<>> THEN <<>> ELSE <<ctxs[1]>>
    IN head(pl.prProofData.contexts) \o head(pl.userProofData.contexts)

\* The matches of /"context":\s*"({.*?})"/g over JSON.stringify of
\* {prProofData, userProofData}: the PR subject's fragments, then the user's.
ContextMatches(pl) == pl.prProofData.contexts \o pl.userProofData.contexts

Threw(msg) == [ok |-> FALSE, error |-> msg]

NoResult == [ok |-> FALSE, error |-> ""]
NoResponse == [status |-> "none"]
NoVerify == [in |-> NoResponse, out |-> NoResult]
NoError == "none"

ExtractAndVerifyProofNoCount(pl) ==
    LET matches == ContextMatches(pl)
        at(i) == IF i <= Len(matches) THEN matches[i] ELSE EmptyRecord
    IN [ok |-> TRUE,
        facts |-> VerifyProofData(ParseJSONSafely(at(1)), ParseJSONSafely(at(2)))]

\* _extractAndVerifyProof
ExtractAndVerifyProof(pl) ==
    LET matches == ContextMatches(pl)
    IN IF Len(matches) < 2
       THEN Threw("Could not extract context from proof data")
       ELSE [ok |-> TRUE,
             facts |-> VerifyProofData(ParseJSONSafely(matches[1]),
                                       ParseJSONSafely(matches[2]))]

\* The proof service either fails (transport error, timeout) or answers.
ApiFailures == {"Network Error", "timeout of 120000ms exceeded"}

ApiResponses(payloads) ==
    [status : {"failed"}, error : ApiFailures] \cup
    [status : {"answered"}, data : payloads]

\* _callZKTLSAPI
CallZKTLSAPI(resp) ==
    IF resp.status = "failed" THEN Threw(resp.error)
    ELSE IF ~resp.data.prProofData.present \/ ~resp.data.userProofData.present
    THEN Threw("Invalid response format from zkTLS API")
    ELSE [ok |-> TRUE, data |-> resp.data]

\* _createZKProof: the blob carries the derived facts.
CreateZKProof(pl, facts) ==
    [isMerged |-> facts.isMerged, isValidUser |-> facts.isValidUser,
     isValidId |-> facts.isValidId]

\* _validatePRLink
ValidatePRLink(linkOk) ==
    IF linkOk THEN [ok |-> TRUE] ELSE Threw("Invalid GitHub PR link")

VerifyPRDefaultVerdict(linkOk, resp) ==
    IF ~ValidatePRLink(linkOk).ok THEN Threw("Invalid GitHub PR link")
    ELSE LET api == CallZKTLSAPI(resp)
         IN IF ~api.ok
            THEN [ok |-> TRUE, isValid |-> FALSE,
                  zkProof |-> [isMerged |-> FALSE, isValidUser |-> FALSE,
                               isValidId |-> FALSE]]
            ELSE LET v == ExtractAndVerifyProof(api.data)
                 IN IF ~v.ok THEN Threw(v.error)
                    ELSE [ok |-> TRUE, isValid |-> v.facts.isValid,
                          zkProof |-> CreateZKProof(api.data, v.facts)]

\* verifyPR: every failure of a step is rethrown as an error.
VerifyPR(linkOk, resp) ==
    IF ~ValidatePRLink(linkOk).ok THEN ValidatePRLink(linkOk)
    ELSE LET api == CallZKTLSAPI(resp)
         IN IF ~api.ok THEN Threw(api.error)
            ELSE LET v == ExtractAndVerifyProof(api.data)
                 IN IF ~v.ok THEN Threw(v.error)
                    ELSE [ok |-> TRUE, isValid |-> v.facts.isValid,
                          zkProof |-> CreateZKProof(api.data, v.facts)]

\* =========================================================================
\* the oracle (AVS contract) as the bot sees it
\* =========================================================================
ZeroAddress == "0x0000"
WalletAddress == "0xAbCd"
OtherAddress == "0xEf01"

ToLowerCaseUnchanged(a) == a

\* String.prototype.toLowerCase on the addresses that occur.
ToLowerCase(a) ==
    CASE a = "0xAbCd" -> "0xabcd"
      [] a = "0xABCD" -> "0xabcd"
      [] a = "0xEf01" -> "0xef01"
      [] OTHER -> a

NewTask == [status |-> PENDING, assignedOperator |-> ZeroAddress]

\* Error messages of a failed write, as the fragments `includes` can find.
TASK_ALREADY_ASSIGNED == {"TaskAlreadyAssigned", "0x48780f5a", "0x27e1f1e5"}

ConflictMessages ==
    {<<"execution reverted: ", "TaskAlreadyAssigned">>,
     <<"call revert exception; data=", "0x48780f5a">>,
     <<"call revert exception; data=", "0x27e1f1e5">>}

FaultMessages ==
    {<<"insufficient funds for gas">>,
     <<"call revert exception; data=", "0x82b42900">>}

Includes(msg, code) == \E i \in 1..Len(msg) : msg[i] = code

\* =========================================================================
\* operator.service.js
\* =========================================================================
\* taskId.toString(): the key of the guard set.
TaskKey(t) == ToString(t)

GuardedNever(t) == FALSE

\* this.processingTasks.has(taskIdStr)
Guarded(t) == TaskKey(t) \in processingTasks

IsAssignedToMeCaseSensitive(task) ==
    task.assignedOperator = ToLowerCase(WalletAddress)

\* isAssignedToMe
IsAssignedToMe(task) ==
    ToLowerCase(task.assignedOperator) = ToLowerCase(WalletAddress)

IsAlreadyAssignedNever(msg) == FALSE

IsAlreadyAssignedByName(msg) == Includes(msg, "TaskAlreadyAssigned")

IsAlreadyAssignedAlways(msg) == TRUE

\* ERROR_CODES.TASK_ALREADY_ASSIGNED.some(code => error.message.includes(code))
IsAlreadyAssigned(msg) == \E code \in TASK_ALREADY_ASSIGNED : Includes(msg, code)

HandleNonPendingTaskOwnerOnly(task) ==
    IF IsAssignedToMe(task) THEN "shouldProcess" ELSE "noop"

\* _handleNonPendingTask
HandleNonPendingTask(task) ==
    IF IsAssignedToMe(task) /\ task.status = ASSIGNED
    THEN "shouldProcess" ELSE "noop"

Set(f, p, v) == [f EXCEPT ![p] = v]

ReleaseNothing(t) == processingTasks

\* finally { this.processingTasks.delete(taskIdStr) }
Release(t) == processingTasks \ {TaskKey(t)}

CallProcessTaskSkipReleases(p, t) ==
    /\ tid' = Set(tid, p, t)
    /\ vres' = Set(vres, p, NoVerify)
    /\ err' = Set(err, p, NoError)
    /\ IF Guarded(t)
       THEN /\ pc' = Set(pc, p, "pt_ret")
            /\ ret' = Set(ret, p, "skipped")
            /\ calls' = Set(calls, p, <<>>)
            /\ processingTasks' = Release(t)
       ELSE /\ processingTasks' = processingTasks \cup {TaskKey(t)}
            /\ pc' = Set(pc, p, "pt_task")
            /\ ret' = Set(ret, p, "none")
            /\ calls' = Set(calls, p, <<"getTask">>)

\* processTask up to its first await: the guard check, the insertion and the
\* task read it issues.  A guarded id makes the call return at once.
CallProcessTask(p, t) ==
    /\ tid' = Set(tid, p, t)
    /\ vres' = Set(vres, p, NoVerify)
    /\ err' = Set(err, p, NoError)
    /\ IF Guarded(t)
       THEN /\ pc' = Set(pc, p, "pt_ret")
            /\ ret' = Set(ret, p, "skipped")
            /\ calls' = Set(calls, p, <<>>)
            /\ UNCHANGED processingTasks
       ELSE /\ processingTasks' = processingTasks \cup {TaskKey(t)}
            /\ pc' = Set(pc, p, "pt_task")
            /\ ret' = Set(ret, p, "none")
            /\ calls' = Set(calls, p, <<"getTask">>)

\* processTask's catch and finally: log, release the guard, rethrow.
FailProcessTask(p) ==
    /\ processingTasks' = Release(tid[p])
    /\ pc' = Set(pc, p, "pt_ret")
    /\ ret' = Set(ret, p, "error")

\* repository.getTask answered inside processTask; _getAccessToken goes on to
\* getClaim, which first looks the claim contract up when it is not set.
PTTaskOk(p) ==
    /\ pc[p] = "pt_task"
    /\ IF issuesClaimContract
       THEN /\ pc' = Set(pc, p, "pt_claim")
            /\ calls' = Set(calls, p, Append(calls[p], "claims"))
       ELSE /\ pc' = Set(pc, p, "pt_claimaddr")
            /\ calls' = Set(calls, p, Append(calls[p], "issuesClaimContract"))
    /\ UNCHANGED <<oracleVars, issuesClaimContract, isRunning, listening,
                   processingTasks, tid, ret, localVars, pollVars,
                   validatorVars,
                   scriptVars>>

\* repository.getTask timed out or failed inside processTask.
PTTaskFail(p) ==
    /\ pc[p] = "pt_task"
    /\ FailProcessTask(p)
    /\ UNCHANGED <<oracleVars, issuesClaimContract, isRunning, listening,
                   tid, calls, localVars, pollVars, validatorVars,
                   scriptVars>>

\* initIssuesClaimContract: the address arrived, the claim read is issued.
PTClaimAddrOk(p) ==
    /\ pc[p] = "pt_claimaddr"
    /\ issuesClaimContract' = TRUE
    /\ pc' = Set(pc, p, "pt_claim")
    /\ calls' = Set(calls, p, Append(calls[p], "claims"))
    /\ UNCHANGED <<oracleVars, isRunning, listening, processingTasks, tid, ret, localVars, pollVars, validatorVars,
                   scriptVars>>

PTClaimAddrFail(p) ==
    /\ pc[p] = "pt_claimaddr"
    /\ FailProcessTask(p)
    /\ UNCHANGED <<oracleVars, issuesClaimContract, isRunning, listening,
                   tid, calls, localVars, pollVars, validatorVars,
                   scriptVars>>

\* The claim arrived: verifyPR checks the prLink of the task that was read
\* and calls the proof service.
PTClaimOk(p) ==
    /\ pc[p] = "pt_claim"
    /\ \E linkOk \in BOOLEAN :
         IF ~ValidatePRLink(linkOk).ok
         THEN /\ vres' = Set(vres, p, [in |-> NoResponse,
                                       out |-> VerifyPR(linkOk, NoResponse)])
              /\ FailProcessTask(p)
              /\ UNCHANGED calls
         ELSE /\ pc' = Set(pc, p, "pt_proof")
              /\ calls' = Set(calls, p, Append(calls[p], "generate-proof"))
              /\ UNCHANGED <<processingTasks, ret, vres>>
    /\ UNCHANGED <<oracleVars, issuesClaimContract, isRunning, listening,
                   tid, err, pollVars, validatorVars,
                   scriptVars>>

PTClaimFail(p) ==
    /\ pc[p] = "pt_claim"
    /\ FailProcessTask(p)
    /\ UNCHANGED <<oracleVars, issuesClaimContract, isRunning, listening,
                   tid, calls, localVars, pollVars, validatorVars,
                   scriptVars>>

\* Answers of the proof service the bot is run against.
GoodPr == [json |-> TRUE, merged |-> Str("true"), login |-> Str("bob"),
           id |-> Str("8")]
GoodUser == [json |-> TRUE, merged |-> Absent, login |-> Str("bob"),
             id |-> Str("8")]
Subject(ctxs) == [present |-> TRUE, contexts |-> ctxs]

SamplePayloads ==
    {[prProofData |-> Subject(<<GoodPr>>), userProofData |-> Subject(<<GoodUser>>)],
     [prProofData |-> Subject(<<[GoodPr EXCEPT !.merged = Str("false")]>>),
      userProofData |-> Subject(<<GoodUser>>)],
     [prProofData |-> Subject(<<[GoodPr EXCEPT !.json = FALSE]>>),
      userProofData |-> Subject(<<GoodUser>>)],
     [prProofData |-> Subject(<<GoodPr>>), userProofData |-> Subject(<<>>)],
     [prProofData |-> Subject(<<>>), userProofData |-> Subject(<<GoodUser>>)],
     [prProofData |-> Subject(<<>>), userProofData |-> Subject(<<>>)],
     [prProofData |-> Subject(<<GoodPr>>), userProofData |-> Missing]}

PTProofResolveValidOnly(p) ==
    /\ pc[p] = "pt_proof"
    /\ \E resp \in ApiResponses(SamplePayloads) :
         LET r == VerifyPR(TRUE, resp)
         IN IF r.ok /\ r.isValid
            THEN /\ vres' = Set(vres, p, [in |-> resp, out |-> r])
                 /\ pc' = Set(pc, p, "pt_submit")
                 /\ calls' = Set(calls, p, Append(calls[p], "submitValidation"))
                 /\ UNCHANGED <<processingTasks, ret>>
            ELSE /\ vres' = Set(vres, p, [in |-> resp, out |-> r])
                 /\ FailProcessTask(p)
                 /\ UNCHANGED calls
    /\ UNCHANGED <<oracleVars, issuesClaimContract, isRunning, listening,
                   tid, err, pollVars, validatorVars,
                   scriptVars>>

\* The proof service answered or failed: verifyPR finishes; on a verdict
\* _submitValidation issues the write.
PTProofResolve(p) ==
    /\ pc[p] = "pt_proof"
    /\ \E resp \in ApiResponses(SamplePayloads) :
         LET r == VerifyPR(TRUE, resp)
         IN IF r.ok
            THEN /\ vres' = Set(vres, p, [in |-> resp, out |-> r])
                 /\ pc' = Set(pc, p, "pt_submit")
                 /\ calls' = Set(calls, p, Append(calls[p], "submitValidation"))
                 /\ UNCHANGED <<processingTasks, ret>>
            ELSE /\ vres' = Set(vres, p, [in |-> resp, out |-> r])
                 /\ FailProcessTask(p)
                 /\ UNCHANGED calls
    /\ UNCHANGED <<oracleVars, issuesClaimContract, isRunning, listening,
                   tid, err, pollVars, validatorVars,
                   scriptVars>>

PTSubmitSentNoWait(p) ==
    /\ pc[p] = "pt_submit"
    /\ processingTasks' = Release(tid[p])
    /\ pc' = Set(pc, p, "pt_ret")
    /\ ret' = Set(ret, p, "done")
    /\ UNCHANGED <<oracleVars, issuesClaimContract, isRunning, listening,
                   tid, calls, localVars, pollVars, validatorVars,
                   scriptVars>>

\* repository.submitValidation: the transaction was sent; tx.wait() waits
\* for the oracle to confirm it.
PTSubmitSent(p) ==
    /\ pc[p] = "pt_submit"
    /\ pc' = Set(pc, p, "pt_confirm")
    /\ calls' = Set(calls, p, Append(calls[p], "wait"))
    /\ UNCHANGED <<oracleVars, issuesClaimContract, isRunning, listening,
                   processingTasks, tid, ret, localVars, pollVars,
                   validatorVars,
                   scriptVars>>

\* The oracle confirmed the validation: the task is Validated, the attempt
\* completes and the guard is released.
PTSubmitOk(p) ==
    /\ pc[p] = "pt_confirm"
    /\ tasks[tid[p]].status = ASSIGNED
    /\ tasks[tid[p]].assignedOperator = WalletAddress
    /\ tasks' = [tasks EXCEPT ![tid[p]].status = VALIDATED]
    /\ processingTasks' = Release(tid[p])
    /\ pc' = Set(pc, p, "pt_ret")
    /\ ret' = Set(ret, p, "done")
    /\ UNCHANGED <<operatorTasks, issuesClaimContract, isRunning,
                   listening, tid, calls, localVars, pollVars, validatorVars,
                   scriptVars>>

\* The write reverted or failed.
PTSubmitFail(p) ==
    /\ pc[p] \in {"pt_submit", "pt_confirm"}
    /\ FailProcessTask(p)
    /\ UNCHANGED <<oracleVars, issuesClaimContract, isRunning, listening,
                   tid, calls, localVars, pollVars, validatorVars,
                   scriptVars>>

\* ------------------------------------------------------------ pickUpTask
\* pickUpTask up to its first await: the task read.
CallPickUpTask(p) ==
    /\ pc' = Set(pc, p, "pu_task")
    /\ calls' = Set(calls, p, <<"getTask">>)
    /\ ret' = Set(ret, p, "none")
    /\ UNCHANGED localVars

PickUpTaskOkUnchecked(p) ==
    /\ pc[p] = "pu_task"
    /\ pc' = Set(pc, p, "pu_pick")
    /\ calls' = Set(calls, p, Append(calls[p], "pickTask"))
    /\ UNCHANGED <<oracleVars, issuesClaimContract, isRunning, listening,
                   processingTasks, tid, ret, localVars, pollVars,
                   validatorVars, scriptVars>>

\* The read of pickUpTask answered: a task that is not Pending is resolved
\* without a write, a Pending one gets the acquisition write.
PickUpTaskOk(p) ==
    /\ pc[p] = "pu_task"
    /\ IF tasks[tid[p]].status # PENDING
       THEN /\ pc' = Set(pc, p, "pu_ret")
            /\ ret' = Set(ret, p, HandleNonPendingTask(tasks[tid[p]]))
            /\ UNCHANGED calls
       ELSE /\ pc' = Set(pc, p, "pu_pick")
            /\ calls' = Set(calls, p, Append(calls[p], "pickTask"))
            /\ UNCHANGED ret
    /\ UNCHANGED <<oracleVars, issuesClaimContract, isRunning, listening,
                   processingTasks, tid, localVars, pollVars, validatorVars,
                   scriptVars>>

PickUpTaskFail(p) ==
    /\ pc[p] = "pu_task"
    /\ pc' = Set(pc, p, "pu_ret")
    /\ ret' = Set(ret, p, "threw")
    /\ UNCHANGED <<oracleVars, issuesClaimContract, isRunning, listening,
                   processingTasks, tid, calls, localVars, pollVars,
                   validatorVars,
                   scriptVars>>

\* The oracle accepted the acquisition: the task is Assigned to this operator.
PickTaskOk(p) ==
    /\ pc[p] = "pu_pick"
    /\ tasks[tid[p]].status = PENDING
    /\ tasks' = [tasks EXCEPT ![tid[p]] =
                    [status |-> ASSIGNED, assignedOperator |-> WalletAddress]]
    /\ operatorTasks' = Append(operatorTasks, tid[p])
    /\ pc' = Set(pc, p, "pu_ret")
    /\ ret' = Set(ret, p, "picked")
    /\ UNCHANGED <<issuesClaimContract, isRunning, listening,
                   processingTasks, tid, calls, localVars, pollVars,
                   validatorVars,
                   scriptVars>>

\* _handlePickTaskError: a conflict signature leads to a re-read, any other
\* error is rethrown.
HandlePickTaskError(p, msg) ==
    /\ IF IsAlreadyAssigned(msg)
       THEN /\ pc' = Set(pc, p, "pu_recheck")
            /\ calls' = Set(calls, p, Append(calls[p], "getTask"))
            /\ UNCHANGED ret
       ELSE /\ pc' = Set(pc, p, "pu_ret")
            /\ ret' = Set(ret, p, "threw")
            /\ UNCHANGED calls

\* The oracle rejected the acquisition because the task is taken.
PickTaskConflict(p) ==
    /\ pc[p] = "pu_pick"
    /\ tasks[tid[p]].status # PENDING
    /\ \E msg \in ConflictMessages : HandlePickTaskError(p, msg)
    /\ err' = Set(err, p, "conflict")
    /\ UNCHANGED <<oracleVars, issuesClaimContract, isRunning, listening,
                   processingTasks, tid, vres, pollVars, validatorVars,
                   scriptVars>>

\* The acquisition failed for another reason.
PickTaskFault(p) ==
    /\ pc[p] = "pu_pick"
    /\ \E msg \in FaultMessages : HandlePickTaskError(p, msg)
    /\ err' = Set(err, p, "fault")
    /\ UNCHANGED <<oracleVars, issuesClaimContract, isRunning, listening,
                   processingTasks, tid, vres, pollVars, validatorVars,
                   scriptVars>>

\* The re-read after a conflict answered.
PickRecheckOk(p) ==
    /\ pc[p] = "pu_recheck"
    /\ pc' = Set(pc, p, "pu_ret")
    /\ ret' = Set(ret, p, IF IsAssignedToMe(tasks[tid[p]])
                          THEN "shouldProcess" ELSE "noop")
    /\ UNCHANGED <<oracleVars, issuesClaimContract, isRunning, listening,
                   processingTasks, tid, calls, localVars, pollVars,
                   validatorVars,
                   scriptVars>>

\* The re-read failed: the error is logged and the result is a no-op.
PickRecheckFail(p) ==
    /\ pc[p] = "pu_recheck"
    /\ pc' = Set(pc, p, "pu_ret")
    /\ ret' = Set(ret, p, "noop")
    /\ calls' = Set(calls, p, Append(calls[p], "getTask failed"))
    /\ UNCHANGED <<oracleVars, issuesClaimContract, isRunning, listening,
                   processingTasks, tid, localVars, pollVars,
                   validatorVars,
                   scriptVars>>

\* =========================================================================
\* operator.controller.js
\* =========================================================================
\* An activity that has nothing left to run.
Finish(p, at) ==
    /\ pc' = Set(pc, p, at)
    /\ tid' = Set(tid, p, 0)
    /\ calls' = Set(calls, p, <<>>)
    /\ ret' = Set(ret, p, "none")
    /\ vres' = Set(vres, p, NoVerify)
    /\ err' = Set(err, p, NoError)

EndHandler(h) == Finish(h, "idle")

\* The slot a new run of a listener takes: the first idle one of its kind.
FreeHandler(h, slots) ==
    /\ h \in slots
    /\ pc[h] \in {"idle", "rejected"}
    /\ \A g \in slots : g < h => pc[g] \notin {"idle", "rejected"}

\* _handleTaskCreated up to its first await: the grace window.
TaskCreatedEvent(h, t) ==
    /\ listening
    /\ FreeHandler(h, CreatedHandlers)
    /\ tid' = Set(tid, h, t)
    /\ pc' = Set(pc, h, "cr_grace")
    /\ UNCHANGED <<oracleVars, issuesClaimContract, isRunning, listening,
                   processingTasks, calls, ret, localVars, pollVars, validatorVars,
                   scriptVars>>

\* The grace window is over: the handler reads the task.
CreatedGraceOver(h) ==
    /\ pc[h] = "cr_grace"
    /\ pc' = Set(pc, h, "cr_task")
    /\ calls' = Set(calls, h, <<"getTask">>)
    /\ UNCHANGED <<oracleVars, issuesClaimContract, isRunning, listening,
                   processingTasks, tid, ret, localVars, pollVars,
                   validatorVars,
                   scriptVars>>

\* The handler's read answered: process, try to pick, or drop.
CreatedTaskOk(h) ==
    /\ pc[h] = "cr_task"
    /\ IF IsAssignedToMe(tasks[tid[h]])
       THEN /\ CallProcessTask(h, tid[h])
       ELSE IF tasks[tid[h]].status = 0
       THEN /\ CallPickUpTask(h)
            /\ UNCHANGED <<processingTasks, tid>>
       ELSE /\ EndHandler(h)
            /\ UNCHANGED processingTasks
    /\ UNCHANGED <<oracleVars, issuesClaimContract, isRunning, listening,
                   pollVars, validatorVars,
                   scriptVars>>

\* The handler's read failed: the error is logged.
CreatedTaskFail(h) ==
    /\ pc[h] = "cr_task"
    /\ EndHandler(h)
    /\ UNCHANGED <<oracleVars, issuesClaimContract, isRunning, listening,
                   processingTasks, pollVars, validatorVars,
                   scriptVars>>

PickUpReturnPickedOnly(h) ==
    /\ pc[h] = "pu_ret"
    /\ IF ret[h] = "picked"
       THEN /\ CallProcessTask(h, tid[h])
       ELSE /\ EndHandler(h)
            /\ UNCHANGED processingTasks
    /\ UNCHANGED <<oracleVars, issuesClaimContract, isRunning, listening,
                   pollVars, validatorVars,
                   scriptVars>>

\* pickUpTask returned to _handleTaskCreated.
PickUpReturn(h) ==
    /\ pc[h] = "pu_ret"
    /\ IF ret[h] \in {"picked", "shouldProcess"}
       THEN /\ CallProcessTask(h, tid[h])
       ELSE /\ EndHandler(h)
            /\ UNCHANGED processingTasks
    /\ UNCHANGED <<oracleVars, issuesClaimContract, isRunning, listening,
                   pollVars, validatorVars,
                   scriptVars>>

\* The addresses a TaskAssigned event can name.
EventOperators == {WalletAddress, "0xABCD", OtherAddress}

\* _handleTaskAssigned for an event that names this operator and a task that
\* is not guarded.
TaskAssignedEvent(h, t, operator) ==
    /\ listening
    /\ FreeHandler(h, AssignedHandlers)
    /\ ToLowerCase(operator) = ToLowerCase(tasks[t].assignedOperator)
    /\ ToLowerCase(operator) = ToLowerCase(WalletAddress)
    /\ ~Guarded(t)
    /\ CallProcessTask(h, t)
    /\ UNCHANGED <<oracleVars, issuesClaimContract, isRunning, listening,
                   pollVars, validatorVars,
                   scriptVars>>

\* What the runtime does with the rejected promise of a listener callback
\* that nobody awaits: it reports the unhandled rejection and goes on, or it
\* terminates the process.
UnhandledRejection == {"rejected", "crashed"}

\* processTask returned to (or threw into) a push handler.  The catch of
\* _handleTaskCreated logs the error; _handleTaskAssigned has no catch, so the
\* error rejects the promise of its listener callback.
HandlerReturn(h) ==
    /\ h \in Handlers
    /\ pc[h] = "pt_ret"
    /\ IF h \in AssignedHandlers /\ ret[h] = "error"
       THEN \E outcome \in UnhandledRejection : Finish(h, outcome)
       ELSE EndHandler(h)
    /\ UNCHANGED <<oracleVars, issuesClaimContract, isRunning, listening,
                   processingTasks, pollVars, validatorVars,
                   scriptVars>>

\* ------------------------------------------------------------- poll loop
\* The loop sleeps for the poll interval.
PollSleep ==
    /\ Finish(PollLoop, "poll_sleep")
    /\ pollList' = <<>>
    /\ pollIdx' = 0
    /\ pendingTasks' = <<>>

\* for (const taskId of pendingTasks) await processTask(taskId), from the
\* k-th candidate on.
PollProcess(k, pend) ==
    IF k <= Len(pend)
    THEN /\ pollIdx' = k
         /\ pendingTasks' = pend
         /\ pollList' = <<>>
         /\ CallProcessTask(PollLoop, pend[k])
    ELSE /\ PollSleep
         /\ UNCHANGED processingTasks

NextListed(list, from) == IF from <= Len(list) THEN from ELSE 0

\* The first position from `from` on whose id is not in the guard set (0: none).
NextUnguarded(list, from) ==
    LET S == {j \in from..Len(list) : ~Guarded(list[j])}
    IN IF S = {} THEN 0 ELSE CHOOSE j \in S : \A i \in S : j <= i

PollScanGuarding(list, from, pend) ==
    LET j == NextUnguarded(list, from)
    IN IF j # 0
       THEN /\ pollList' = list
            /\ pollIdx' = j
            /\ pendingTasks' = pend
            /\ pc' = Set(pc, PollLoop, "poll_read")
            /\ tid' = Set(tid, PollLoop, list[j])
            /\ calls' = Set(calls, PollLoop, Append(calls[PollLoop], "getTask"))
            /\ processingTasks' = processingTasks \cup {TaskKey(list[j])}
            /\ UNCHANGED <<ret, localVars>>
       ELSE PollProcess(1, pend)

\* pollAssignedTasks from position `from` of the listing: read the next id
\* that is not guarded, or return the candidates to the loop.
PollScan(list, from, pend) ==
    LET j == NextUnguarded(list, from)
    IN IF j # 0
       THEN /\ pollList' = list
            /\ pollIdx' = j
            /\ pendingTasks' = pend
            /\ pc' = Set(pc, PollLoop, "poll_read")
            /\ tid' = Set(tid, PollLoop, list[j])
            /\ calls' = Set(calls, PollLoop, Append(calls[PollLoop], "getTask"))
            /\ UNCHANGED <<processingTasks, ret, localVars>>
       ELSE PollProcess(1, pend)

\* start(): the registration check.
Start ==
    /\ pc[PollLoop] = "off"
    /\ pc' = Set(pc, PollLoop, "registering")
    /\ calls' = Set(calls, PollLoop, <<"getOperatorTasks">>)
    /\ UNCHANGED <<oracleVars, issuesClaimContract, isRunning, listening,
                   processingTasks, tid, ret, localVars, pollVars,
                   validatorVars,
                   scriptVars>>

\* The operator is registered: the bot runs, listens and starts polling.
StartRegistered ==
    /\ pc[PollLoop] = "registering"
    /\ isRunning' = TRUE
    /\ listening' = TRUE
    /\ pc' = Set(pc, PollLoop, "poll_list")
    /\ calls' = Set(calls, PollLoop, <<"getOperatorTasks">>)
    /\ UNCHANGED <<oracleVars, issuesClaimContract, processingTasks, tid, ret, localVars, pollVars, validatorVars,
                   scriptVars>>

\* The registration check failed: process.exit(1).
StartNotRegistered ==
    /\ pc[PollLoop] = "registering"
    /\ Finish(PollLoop, "exited")
    /\ UNCHANGED <<oracleVars, issuesClaimContract, isRunning, listening,
                   processingTasks, pollVars, validatorVars,
                   scriptVars>>

\* stop()
Stop ==
    /\ isRunning
    /\ isRunning' = FALSE
    /\ UNCHANGED <<oracleVars, issuesClaimContract, listening,
                   processingTasks, pc, tid, calls, ret, localVars,
                   pollVars, validatorVars,
                   scriptVars>>

\* getOperatorTasks answered.
PollListOk ==
    /\ pc[PollLoop] = "poll_list"
    /\ PollScan(operatorTasks, 1, <<>>)
    /\ UNCHANGED <<oracleVars, issuesClaimContract, isRunning, listening,
                   validatorVars,
                   scriptVars>>

\* getOperatorTasks failed: the loop logs and sleeps.
PollListFail ==
    /\ pc[PollLoop] = "poll_list"
    /\ PollSleep
    /\ UNCHANGED <<oracleVars, issuesClaimContract, isRunning, listening,
                   processingTasks, validatorVars,
                   scriptVars>>

\* A task read of pollAssignedTasks answered.
PollReadOk ==
    /\ pc[PollLoop] = "poll_read"
    /\ PollScan(pollList, pollIdx + 1,
                IF tasks[tid[PollLoop]].status = ASSIGNED
                THEN Append(pendingTasks, tid[PollLoop]) ELSE pendingTasks)
    /\ UNCHANGED <<oracleVars, issuesClaimContract, isRunning, listening,
                   validatorVars,
                   scriptVars>>

\* A task read of pollAssignedTasks failed: the loop logs and sleeps.
PollReadFail ==
    /\ pc[PollLoop] = "poll_read"
    /\ PollSleep
    /\ UNCHANGED <<oracleVars, issuesClaimContract, isRunning, listening,
                   processingTasks, validatorVars,
                   scriptVars>>

PollReturnEscapes ==
    /\ pc[PollLoop] = "pt_ret"
    /\ IF ret[PollLoop] = "error"
       THEN /\ Finish(PollLoop, "stopped")
            /\ UNCHANGED <<processingTasks, pollVars>>
       ELSE PollProcess(pollIdx + 1, pendingTasks)
    /\ UNCHANGED <<oracleVars, issuesClaimContract, isRunning, listening,
                   validatorVars,
                   scriptVars>>

\* processTask returned to the loop: an error ends the iteration, otherwise
\* the next candidate is processed.
PollReturn ==
    /\ pc[PollLoop] = "pt_ret"
    /\ IF ret[PollLoop] = "error"
       THEN /\ PollSleep
            /\ UNCHANGED processingTasks
       ELSE PollProcess(pollIdx + 1, pendingTasks)
    /\ UNCHANGED <<oracleVars, issuesClaimContract, isRunning, listening,
                   validatorVars,
                   scriptVars>>

\* The poll interval is over: the next iteration, or the end of the loop.
PollWake ==
    /\ pc[PollLoop] = "poll_sleep"
    /\ IF isRunning
       THEN /\ pc' = Set(pc, PollLoop, "poll_list")
            /\ calls' = Set(calls, PollLoop, <<"getOperatorTasks">>)
       ELSE /\ pc' = Set(pc, PollLoop, "stopped")
            /\ UNCHANGED calls
    /\ UNCHANGED <<oracleVars, issuesClaimContract, isRunning, listening,
                   processingTasks, tid, ret, localVars, pollVars,
                   validatorVars,
                   scriptVars>>

\* ------------------------------------------------ the deadline of getTask
\* The awaits of repository.getTask: in processTask, pickUpTask,
\* _handlePickTaskError, _handleTaskCreated and pollAssignedTasks.
GetTaskWaits == {"pt_task", "pu_task", "pu_recheck", "cr_task", "poll_read"}

GetTaskTimerNever(p) == FALSE

\* repository.getTask races the read against a TASK_DETAILS timer: the timer
\* is armed while the activity awaits the read.
GetTaskTimerArmed(p) == pc[p] \in GetTaskWaits

\* The timer fires first: the race rejects with "Timeout getting task
\* details" and the awaiting function handles it as any failure of the read:
\* in processTask, in pollAssignedTasks, and in the task-created handler and
\* the pickUpTask it calls.
ProcessGetTaskTimeout(p) ==
    /\ GetTaskTimerArmed(p)
    /\ PTTaskFail(p)

PollGetTaskTimeout ==
    /\ GetTaskTimerArmed(PollLoop)
    /\ PollReadFail

HandlerGetTaskTimeout(h) ==
    /\ GetTaskTimerArmed(h)
    /\ \/ CreatedTaskFail(h)
       \/ PickUpTaskFail(h)
       \/ PickRecheckFail(h)

GetTaskTimeout(p) ==
    \/ ProcessGetTaskTimeout(p)
    \/ p = PollLoop /\ PollGetTaskTimeout
    \/ HandlerGetTaskTimeout(p)

\* ---------------------------------------------------- the oracle's moves
\* The oracle assigns a Pending task: auto-assignment, or another operator's
\* acquisition.
OracleAssign(t, operator) ==
    /\ tasks[t].status = PENDING
    /\ tasks' = [tasks EXCEPT ![t] =
                    [status |-> ASSIGNED, assignedOperator |-> operator]]
    /\ operatorTasks' = IF operator = WalletAddress
                        THEN Append(operatorTasks, t) ELSE operatorTasks
    /\ UNCHANGED <<issuesClaimContract, isRunning, listening,
                   processingTasks, pc, tid, calls, ret, localVars,
                   pollVars, validatorVars,
                   scriptVars>>

\* Another operator validates the task it holds.
OracleValidate(t) ==
    /\ tasks[t].status = ASSIGNED
    /\ tasks[t].assignedOperator = OtherAddress
    /\ tasks' = [tasks EXCEPT ![t].status = VALIDATED]
    /\ UNCHANGED <<operatorTasks, issuesClaimContract, isRunning,
                   listening, processingTasks, pc, tid, calls, ret,
                   localVars, pollVars, validatorVars,
                   scriptVars>>

\* ------------------------------------------------------------------ system
NoPayload == [prProofData |-> Missing, userProofData |-> Missing]
NoInput == [linkOk |-> FALSE, resp |-> [status |-> "failed", error |-> ""]]

\* =========================================================================
\* operator.js : the processTask attempt of the single-file bot

\* processTask calls of one run of the single-file bot.
MaxRuns == 2

\* The `merged` member of a JSON answer: the boolean true, the boolean false,
\* the string "true", or no such member.
JsonMerged == {"true", "false", "'true'", "absent"}

\* merged === true
StrictlyTrue(merged) == merged = "true"

\* A proof blob: the hex of the JSON text it was made from ("0x": no bytes).
EmptyBlob == [text |-> "0x", fallback |-> FALSE, merged |-> FALSE]
ProofBlob == [text |-> "proof", fallback |-> FALSE, merged |-> FALSE]
FallbackBlob(merged) == [text |-> "json", fallback |-> TRUE, merged |-> merged]

SingleIdle ==
    [pc |-> "idle", tid |-> 0, runs |-> 0, processing |-> FALSE,
     linkOk |-> FALSE,
     zk |-> "none", github |-> "none",
     isValid |-> FALSE, zkProof |-> EmptyBlob, sent |-> <<>>]

botVars ==
    <<oracleVars, issuesClaimContract, isRunning, listening, processingTasks,
      pc, tid, calls, ret, localVars, pollVars, validatorVars>>

\* =========================================================================
\* register/ and the legacy register script : one registration run

\* CONFIG.stakeAmount, and the token amounts a read can answer.
StakeAmount == 1
MaxAmount == 2
Amounts == 0..MaxAmount

RegIdle ==
    [program |-> "none", pc |-> "idle", calls |-> <<>>,
     operator |-> "unread", balance |-> 0,
     allowance |-> 0, approved |-> FALSE, exit |-> "running"]

IsRegisteredNever(operator) == FALSE
HasEnoughAlways(balance) == TRUE
NeedsApprovalNever(allowance) == FALSE

\* isRegistered: operator.isActive of an answered getOperator; a failed
\* getOperator counts as not registered.
IsRegistered(operator) == operator = "active"

\* balance.gte(stakeAmountWei)
HasEnough(balance) == balance >= StakeAmount

\* allowance.lt(stakeAmountWei)
NeedsApproval(allowance) == allowance < StakeAmount

RegCall(r, at, call) == [r EXCEPT !.pc = at, !.calls = Append(r.calls, call)]
RegExit(r, code) == [r EXCEPT !.pc = "exited", !.exit = code]

\* processTask entered: the guard is taken and getTask is awaited.
SingleProcessTask(t) ==
    /\ single.pc \in {"idle", "done", "error"}
    /\ single.runs < MaxRuns
    /\ single' = [SingleIdle EXCEPT !.pc = "task", !.tid = t,
                                     !.runs = single.runs + 1,
                                     !.processing = TRUE]
    /\ UNCHANGED <<botVars, reg, lifecycle, legacy>>

\* fallbackVerification: a link that does not match answers (false, "0x")
\* without a call, otherwise the GitHub API is asked.
SingleFallback(s) ==
    IF ~s.linkOk
    THEN [s EXCEPT !.pc = "submit", !.isValid = FALSE, !.zkProof = EmptyBlob,
                   !.sent = Append(s.sent, [isValid |-> FALSE,
                                             zkProof |-> EmptyBlob])]
    ELSE [s EXCEPT !.pc = "github"]

\* getTask answered: verifyPRWithZKTLS matches the link; no match throws
\* inside its try, and its catch falls back.
SingleTaskOk(linkOk) ==
    /\ single.pc = "task"
    /\ single' = IF linkOk
                 THEN [single EXCEPT !.pc = "zk", !.linkOk = TRUE]
                 ELSE SingleFallback([single EXCEPT !.linkOk = FALSE,
                                                    !.zk = "invalid link"])
    /\ UNCHANGED <<botVars, reg, lifecycle, legacy>>

\* getTask failed: processTask logs, releases the guard, returns.
SingleTaskFail ==
    /\ single.pc = "task"
    /\ single' = [single EXCEPT !.pc = "error", !.processing = FALSE]
    /\ UNCHANGED <<botVars, reg, lifecycle, legacy>>

\* The zkTLS API answered {merged, proof}.
SingleZkOk(merged) ==
    /\ single.pc = "zk"
    /\ single' = [single EXCEPT
                    !.pc = "submit", !.zk = "answered",
                    !.isValid = StrictlyTrue(merged), !.zkProof = ProofBlob,
                    !.sent = Append(single.sent,
                                    [isValid |-> StrictlyTrue(merged),
                                     zkProof |-> ProofBlob])]
    /\ UNCHANGED <<botVars, reg, lifecycle, legacy>>

\* The zkTLS call failed (network, HTTP status, 30 s timeout): the catch
\* falls back.
SingleZkFail ==
    /\ single.pc = "zk"
    /\ single' = SingleFallback([single EXCEPT !.zk = "failed"])
    /\ UNCHANGED <<botVars, reg, lifecycle, legacy>>

\* The GitHub API answered.
SingleGithubOk(merged) ==
    /\ single.pc = "github"
    /\ LET m == StrictlyTrue(merged)
       IN single' = [single EXCEPT
                       !.pc = "submit", !.github = merged,
                       !.isValid = m, !.zkProof = FallbackBlob(m),
                       !.sent = Append(single.sent,
                                       [isValid |-> m,
                                        zkProof |-> FallbackBlob(m)])]
    /\ UNCHANGED <<botVars, reg, lifecycle, legacy>>

\* The GitHub call failed: fallbackVerification answers (false, "0x").
SingleGithubFail ==
    /\ single.pc = "github"
    /\ single' = [single EXCEPT
                    !.pc = "submit", !.github = "failed",
                    !.isValid = FALSE, !.zkProof = EmptyBlob,
                    !.sent = Append(single.sent, [isValid |-> FALSE,
                                                   zkProof |-> EmptyBlob])]
    /\ UNCHANGED <<botVars, reg, lifecycle, legacy>>

\* The submitValidation transaction was accepted: tx.wait() is awaited.
SingleSubmitSent ==
    /\ single.pc = "submit"
    /\ single' = [single EXCEPT !.pc = "confirm"]
    /\ UNCHANGED <<botVars, reg, lifecycle, legacy>>

\* The transaction was confirmed: the attempt is complete, the guard released.
SingleSubmitOk ==
    /\ single.pc = "confirm"
    /\ single' = [single EXCEPT !.pc = "done", !.processing = FALSE]
    /\ UNCHANGED <<botVars, reg, lifecycle, legacy>>

\* The write or its confirmation failed: logged, rethrown, caught by
\* processTask; the guard is released.
SingleSubmitFail ==
    /\ single.pc \in {"submit", "confirm"}
    /\ single' = [single EXCEPT !.pc = "error", !.processing = FALSE]
    /\ UNCHANGED <<botVars, reg, lifecycle, legacy>>

\* =========================================================================
\* operator.controller.js : start() and stop() called in any order
\* =========================================================================
\* starts: the start() calls waiting for their registration check; loops: the
\* _startTaskPolling activities that were started, each at its await.
LifeIdle == [starts |-> 0, loops |-> <<>>, exited |-> FALSE]

lifeFrame ==
    <<oracleVars, issuesClaimContract, processingTasks, pc, tid, calls, ret,
      localVars, pollVars, validatorVars, single, reg, legacy>>

\* start() up to its first await: _verifyRegistration.
LifeStart ==
    /\ ~lifecycle.exited
    /\ lifecycle.starts + Len(lifecycle.loops) < MaxStarts
    /\ lifecycle' = [lifecycle EXCEPT !.starts = @ + 1]
    /\ UNCHANGED <<isRunning, listening, lifeFrame>>

\* The registration check passed: the flag is set, the listeners are
\* registered and _startTaskPolling runs up to its first await.
LifeRegistered ==
    /\ ~lifecycle.exited
    /\ lifecycle.starts > 0
    /\ isRunning' = TRUE
    /\ listening' = TRUE
    /\ lifecycle' = [lifecycle EXCEPT
                       !.starts = @ - 1,
                       !.loops = Append(@, "poll")]
    /\ UNCHANGED lifeFrame

\* The registration check failed: process.exit(1).
LifeNotRegistered ==
    /\ ~lifecycle.exited
    /\ lifecycle.starts > 0
    /\ lifecycle' = [starts |-> 0,
                     loops |-> [i \in 1..Len(lifecycle.loops) |-> "ended"],
                     exited |-> TRUE]
    /\ UNCHANGED <<isRunning, listening, lifeFrame>>

\* stop()
LifeStop ==
    /\ ~lifecycle.exited
    /\ isRunning
    /\ isRunning' = FALSE
    /\ UNCHANGED <<listening, lifecycle, lifeFrame>>

LifeAt(i, at) == i \in 1..Len(lifecycle.loops) /\ lifecycle.loops[i] = at
LifeMove(i, to) == lifecycle' = [lifecycle EXCEPT !.loops[i] = to]

\* pollAssignedTasks returned candidates (the for loop awaits processTask) or
\* none, or it threw (the catch logs): the loop sleeps.
LifePolled(i, found) ==
    /\ LifeAt(i, "poll")
    /\ LifeMove(i, IF found THEN "process" ELSE "sleep")
    /\ UNCHANGED <<isRunning, listening, lifeFrame>>

\* The candidates are done, or one threw: the loop sleeps.
LifeProcessed(i) ==
    /\ LifeAt(i, "process")
    /\ LifeMove(i, "sleep")
    /\ UNCHANGED <<isRunning, listening, lifeFrame>>

\* The poll interval is over: while (this.isRunning).
LifeWake(i) ==
    /\ LifeAt(i, "sleep")
    /\ LifeMove(i, IF isRunning THEN "poll" ELSE "ended")
    /\ UNCHANGED <<isRunning, listening, lifeFrame>>

\* =========================================================================
\* unnamed/part_001 : the single-file bot, driven by its poll loop
\* =========================================================================
\* The bot runs against its own copy of the oracle (tasks, operatorTasks);
\* proofFails are the tasks whose zkTLS proof request fails.  attempts and
\* sent list the tasks processTask was entered for and the tasks a
\* submitValidation was sent for, in order.
LegacyIdle ==
    [pc |-> "off", tasks |-> <<>>, operatorTasks |-> <<>>, proofFails |-> {},
     list |-> <<>>, idx |-> 0, tid |-> 0, processingTasks |-> {},
     attempts |-> <<>>, sent |-> <<>>]

legacyFrame == <<botVars, single, reg, lifecycle>>

\* start() up to its first await, the registration check, on the oracle as
\* it stands.
LegacyStart(fails) ==
    /\ legacy.pc = "off"
    /\ pc[PollLoop] = "off"
    /\ legacy' = [LegacyIdle EXCEPT !.pc = "registering", !.tasks = tasks,
                                     !.operatorTasks = operatorTasks,
                                     !.proofFails = fails]
    /\ UNCHANGED legacyFrame

\* The check passed: listenForTasks, then pollPendingTasks up to its
\* getOperatorTasks.
LegacyRegistered ==
    /\ legacy.pc = "registering"
    /\ legacy' = [legacy EXCEPT !.pc = "list"]
    /\ UNCHANGED legacyFrame

\* for (const taskId of tasks) from position `from`: the task read of the
\* next id that is not guarded, or the sleep after the last one.
LegacyScan(l, from) ==
    LET S == {j \in from..Len(l.list) : TaskKey(l.list[j]) \notin l.processingTasks}
    IN IF S = {}
       THEN [l EXCEPT !.pc = "sleep", !.idx = 0, !.tid = 0]
       ELSE LET j == CHOOSE j \in S : \A i \in S : j <= i
            IN [l EXCEPT !.pc = "read", !.idx = j, !.tid = l.list[j]]

\* getOperatorTasks answered.
LegacyListOk ==
    /\ legacy.pc = "list"
    /\ legacy' = LegacyScan([legacy EXCEPT !.list = legacy.operatorTasks], 1)
    /\ UNCHANGED legacyFrame

\* The task read of the loop answered: an Assigned task is processed at
\* once (processTask up to its getTask), any other is passed over.
LegacyReadOk ==
    /\ legacy.pc = "read"
    /\ legacy' =
         IF legacy.tasks[legacy.tid].status = 1
         THEN IF TaskKey(legacy.tid) \in legacy.processingTasks
              THEN LegacyScan(legacy, legacy.idx + 1)
              ELSE [legacy EXCEPT
                      !.pc = "pt_task",
                      !.processingTasks = @ \cup {TaskKey(legacy.tid)},
                      !.attempts = Append(@, legacy.tid)]
         ELSE LegacyScan(legacy, legacy.idx + 1)
    /\ UNCHANGED legacyFrame

\* processTask: getTask, issuesClaimContract and claims answered in turn
\* (then the proof request is sent); the submitValidation transaction was
\* sent (then tx.wait()).
LegacyAnswered ==
    /\ legacy.pc \in {"pt_task", "pt_claimaddr", "pt_claim", "pt_submit"}
    /\ legacy' = [legacy EXCEPT
                    !.pc = CASE @ = "pt_task" -> "pt_claimaddr"
                             [] @ = "pt_claimaddr" -> "pt_claim"
                             [] @ = "pt_claim" -> "pt_proof"
                             [] @ = "pt_submit" -> "pt_confirm"]
    /\ UNCHANGED legacyFrame

\* verifyPRWithZKTLS: the proof request answered (a verdict, which is
\* submitted) or failed (the catch falls back to the GitHub API).
LegacyProof ==
    /\ legacy.pc = "pt_proof"
    /\ legacy' = IF legacy.tid \in legacy.proofFails
                 THEN [legacy EXCEPT !.pc = "pt_github"]
                 ELSE [legacy EXCEPT !.pc = "pt_submit",
                                     !.sent = Append(@, legacy.tid)]
    /\ UNCHANGED legacyFrame

\* fallbackVerification: the GitHub API answered or failed; either way a
\* verdict is returned and submitted.
LegacyGithub(answer) ==
    /\ legacy.pc = "pt_github"
    /\ answer \in {"merged", "open", "failed"}
    /\ legacy' = [legacy EXCEPT !.pc = "pt_submit",
                                !.sent = Append(@, legacy.tid)]
    /\ UNCHANGED legacyFrame

\* The oracle confirmed the validation: the guard is released and the loop
\* goes on with the next id.
LegacySubmitOk ==
    /\ legacy.pc = "pt_confirm"
    /\ legacy.tasks[legacy.tid].status = ASSIGNED
    /\ legacy.tasks[legacy.tid].assignedOperator = WalletAddress
    /\ legacy' = LegacyScan(
                    [legacy EXCEPT
                       !.tasks[legacy.tid].status = VALIDATED,
                       !.processingTasks = @ \ {TaskKey(legacy.tid)}],
                    legacy.idx + 1)
    /\ UNCHANGED legacyFrame


InitBot ==
    /\ tasks = [t \in TaskIds |-> NewTask]
    /\ operatorTasks = <<>>
    /\ issuesClaimContract = FALSE
    /\ isRunning = FALSE
    /\ listening = FALSE
    /\ processingTasks = {}
    /\ pc = [p \in Procs |-> IF p = PollLoop THEN "off" ELSE "idle"]
    /\ tid = [p \in Procs |-> 0]
    /\ calls = [p \in Procs |-> <<>>]
    /\ ret = [p \in Procs |-> "none"]
    /\ vres = [p \in Procs |-> NoVerify]
    /\ err = [p \in Procs |-> NoError]
    /\ pollList = <<>>
    /\ pollIdx = 0
    /\ pendingTasks = <<>>

Init ==
    /\ InitBot
    /\ vin = NoInput
    /\ vout = NoResult
    /\ single = SingleIdle
    /\ reg = RegIdle
    /\ lifecycle = LifeIdle
    /\ legacy = LegacyIdle

\* What the event loop serves for the poll loop, for a processing attempt and
\* for the oracle's own moves.
Polled ==
    \/ Start
    \/ StartRegistered
    \/ StartNotRegistered
    \/ Stop
    \/ PollListOk
    \/ PollListFail
    \/ PollReadOk
    \/ PollReadFail
    \/ PollGetTaskTimeout
    \/ PollWake
    \/ \E p \in Procs : PTTaskOk(p)
    \/ \E p \in Procs : PTTaskFail(p)
    \/ \E p \in Procs : ProcessGetTaskTimeout(p)
    \/ \E p \in Procs : PTClaimAddrOk(p)
    \/ \E p \in Procs : PTClaimAddrFail(p)
    \/ \E p \in Procs : PTClaimOk(p)
    \/ \E p \in Procs : PTClaimFail(p)
    \/ \E p \in Procs : PTProofResolve(p)
    \/ \E p \in Procs : PTSubmitSent(p)
    \/ \E p \in Procs : PTSubmitOk(p)
    \/ \E p \in Procs : PTSubmitFail(p)
    \/ \E t \in TaskIds, o \in {WalletAddress, OtherAddress} : OracleAssign(t, o)
    \/ \E t \in TaskIds : OracleValidate(t)

\* What it serves for the TaskCreated listener and the pickUpTask it calls.
CreatedServed ==
    \/ \E h \in Handlers, t \in TaskIds : TaskCreatedEvent(h, t)
    \/ \E h \in Handlers : CreatedGraceOver(h)
    \/ \E h \in Handlers : CreatedTaskOk(h)
    \/ \E h \in Handlers : CreatedTaskFail(h)
    \/ \E h \in Handlers : PickUpTaskOk(h)
    \/ \E h \in Handlers : PickUpTaskFail(h)
    \/ \E h \in Handlers : PickTaskOk(h)
    \/ \E h \in Handlers : PickTaskConflict(h)
    \/ \E h \in Handlers : PickTaskFault(h)
    \/ \E h \in Handlers : PickRecheckOk(h)
    \/ \E h \in Handlers : PickRecheckFail(h)
    \/ \E h \in Handlers : HandlerGetTaskTimeout(h)

\* Everything but the delivery of a TaskAssigned notification.
Served ==
    \/ Polled
    \/ CreatedServed

\* The contract's TaskAssigned notification reaches the listener.
AssignedDelivered ==
    \E h \in Handlers, t \in TaskIds, o \in EventOperators :
        TaskAssignedEvent(h, t, o)

Macrotask ==
    \/ Served
    \/ AssignedDelivered

\* The continuation of an await on a function that has returned: promise
\* continuations run before the next I/O completion or timer is served.
Microtask ==
    \/ PollReturn
    \/ \E h \in Handlers : PickUpReturn(h)
    \/ \E h \in Handlers : HandlerReturn(h)

ReturningOrProving ==
    \E p \in Procs : pc[p] \in {"pt_ret", "pu_ret", "pt_proof"}

Returning == \E p \in Procs : pc[p] \in {"pt_ret", "pu_ret"}

\* The process has not been terminated.
Alive == \A p \in Procs : pc[p] # "crashed"

Next ==
    \/ Alive /\ ~Returning /\ Macrotask
    \/ Alive /\ Microtask

Spec == Init /\ [][Next]_vars

\* The runs in which the TaskAssigned notifications are dropped: the poll
\* loop and the task-created handler do all the work.
NextLive ==
    \/ ~Returning /\ Served
    \/ Microtask

\* What the program's own scheduling guarantees: a continuation of a settled
\* await runs, a timer that was set fires (the grace window, the poll
\* interval, the deadline of getTask), and the proof request settles within
\* the ZKTLS_API timeout axios is given.  The oracle owes no answer.
TimerFairness ==
    /\ WF_vars(Microtask)
    /\ WF_vars(PollWake)
    /\ \A h \in Handlers : WF_vars(CreatedGraceOver(h))
    /\ \A p \in Procs : WF_vars(GetTaskTimeout(p))
    /\ \A p \in Procs : WF_vars(PTProofResolve(p))

SpecLive == Init /\ [][NextLive]_vars /\ TimerFairness

\* An oracle that settles every call it is sent, with an answer or an error.
OracleFairness ==
    /\ WF_vars(PollListOk \/ PollListFail)
    /\ \A p \in Procs : WF_vars(PTClaimAddrOk(p) \/ PTClaimAddrFail(p))
    /\ \A p \in Procs : WF_vars(PTClaimOk(p) \/ PTClaimFail(p))
    /\ \A p \in Procs :
          WF_vars(PTSubmitSent(p) \/ PTSubmitOk(p) \/ PTSubmitFail(p))
    /\ \A h \in Handlers :
          WF_vars(PickTaskOk(h) \/ PickTaskConflict(h) \/ PickTaskFault(h))

\* The operator's task list and the task reads of the poll scan are answered
\* again and again, not only settled.
ScanFairness ==
    /\ SF_vars(PollListOk)
    /\ \A t \in TaskIds : SF_vars(PollReadOk /\ tid[PollLoop] = t)

SpecResponsive == SpecLive /\ OracleFairness /\ ScanFairness

\* The runs of the end-to-end scenario: the oracle has assigned a task by the
\* time its TaskCreated notification is served, so the handler's read after
\* the grace window never shows it Pending; TaskAssigned notifications are
\* dropped.
CreatedAfterAssignment ==
    \/ \E h \in Handlers, t \in TaskIds :
          tasks[t].status # PENDING /\ TaskCreatedEvent(h, t)
    \/ \E h \in Handlers : CreatedGraceOver(h)
    \/ \E h \in Handlers : CreatedTaskOk(h)
    \/ \E h \in Handlers : CreatedTaskFail(h)
    \/ \E h \in Handlers : GetTaskTimerArmed(h) /\ CreatedTaskFail(h)

NextAssigned ==
    \/ ~Returning /\ (Polled \/ CreatedAfterAssignment)
    \/ PollReturn
    \/ \E h \in Handlers : HandlerReturn(h)

SpecAssigned == Init /\ [][NextAssigned]_vars

\* The SIGINT/SIGTERM handler of the entry point: stop() clears the running
\* flag and, the await on it being a microtask continuation, process.exit(0)
\* follows before any other activity is scheduled: every activity of the
\* process ends where it stands, and what it held is not released.
Shutdown ==
    /\ pc[PollLoop] # "exited"
    /\ isRunning' = FALSE
    /\ pc' = [p \in Procs |-> "exited"]
    /\ UNCHANGED <<oracleVars, issuesClaimContract, listening,
                   processingTasks, tid, calls, ret, localVars, pollVars,
                   validatorVars,
                   scriptVars>>

\* The runs in which a termination signal may be delivered to a process whose
\* oracle answers every call; nothing runs after process.exit.
NextShutdown ==
    \/ pc[PollLoop] # "exited" /\ NextLive
    \/ ~Returning /\ Shutdown

SpecShutdown ==
    /\ Init /\ [][NextShutdown]_vars
    /\ TimerFairness /\ OracleFairness /\ ScanFairness

\* The runs in which every push notification is dropped: the poll loop alone
\* finds the work.
NextPoll ==
    \/ ~Returning /\ Polled
    \/ PollReturn

SpecPoll ==
    Init /\ [][NextPoll]_vars /\ TimerFairness /\ OracleFairness /\ ScanFairness


\* ------------------------------------------- the validator run on its own
\* verifyPR applied to one input: any answer of the proof service for a
\* well-formed link, and the sample answers for a malformed one.
VInputs ==
    [linkOk : {TRUE}, resp : ApiResponses(Payloads)] \cup
    [linkOk : {FALSE}, resp : ApiResponses(SamplePayloads)]

InitV ==
    /\ InitBot
    /\ vin \in VInputs
    /\ vout = NoResult
    /\ single = SingleIdle
    /\ reg = RegIdle
    /\ lifecycle = LifeIdle
    /\ legacy = LegacyIdle

VerifyStep ==
    /\ vout = NoResult
    /\ vout' = VerifyPR(vin.linkOk, vin.resp)
    /\ UNCHANGED <<oracleVars, issuesClaimContract, isRunning, listening,
                   processingTasks, pc, tid, calls, ret, localVars, pollVars,
                   vin, scriptVars>>

NextV == VerifyStep

SpecV == InitV /\ [][NextV]_vars

\* execute() of register/ or main() of the legacy script: the configuration
\* is shown and the token information is read; getTokenInfo of register/ reads
\* stakeToken() a second time to build the token contract.
RegStart(program) ==
    /\ reg.pc = "idle"
    /\ reg' = [reg EXCEPT
                 !.program = program,
                 !.pc = "info",
                 !.calls = IF program = "register"
                           THEN <<"stakeToken", "stakeToken", "symbol">>
                           ELSE <<"stakeToken", "symbol">>]
    /\ UNCHANGED <<botVars, single, lifecycle, legacy>>

\* getTokenInfo answered: getOperator is read.
RegInfoOk ==
    /\ reg.pc = "info"
    /\ reg' = RegCall(reg, "operator", "getOperator")
    /\ UNCHANGED <<botVars, single, lifecycle, legacy>>

\* getOperator settled ("active", "inactive" or "failed"): an active operator
\* ends the run, otherwise the balance is read.
RegOperator(operator) ==
    /\ reg.pc = "operator"
    /\ LET r == [reg EXCEPT !.operator = operator]
       IN reg' = IF IsRegistered(operator)
                 THEN RegExit(r, "returned")
                 ELSE RegCall(r, "balance", "balanceOf")
    /\ UNCHANGED <<botVars, single, lifecycle, legacy>>

\* balanceOf answered: too little ends the run with exit(1), otherwise the
\* allowance is read.
RegBalanceOk(balance) ==
    /\ reg.pc = "balance"
    /\ LET r == [reg EXCEPT !.balance = balance]
       IN reg' = IF HasEnough(balance)
                 THEN RegCall(r, "allowance", "allowance")
                 ELSE RegExit(r, "exit(1)")
    /\ UNCHANGED <<botVars, single, lifecycle, legacy>>

\* allowance answered: an approval is sent if it is too small, otherwise the
\* registration is sent.
RegAllowanceOk(allowance) ==
    /\ reg.pc = "allowance"
    /\ LET r == [reg EXCEPT !.allowance = allowance]
       IN reg' = IF NeedsApproval(allowance)
                 THEN RegCall(r, "approve", "approve")
                 ELSE RegCall(r, "register", "registerOperator")
    /\ UNCHANGED <<botVars, single, lifecycle, legacy>>

\* The approve transaction was accepted: its confirmation is awaited.
RegApproveSent ==
    /\ reg.pc = "approve"
    /\ reg' = [reg EXCEPT !.pc = "approve_wait"]
    /\ UNCHANGED <<botVars, single, lifecycle, legacy>>

\* The approval was confirmed: the registration is sent.
RegApproveOk ==
    /\ reg.pc = "approve_wait"
    /\ reg' = RegCall([reg EXCEPT !.approved = TRUE], "register",
                       "registerOperator")
    /\ UNCHANGED <<botVars, single, lifecycle, legacy>>

\* The registerOperator transaction was accepted: its confirmation is awaited.
RegRegisterSent ==
    /\ reg.pc = "register"
    /\ reg' = [reg EXCEPT !.pc = "register_wait"]
    /\ UNCHANGED <<botVars, single, lifecycle, legacy>>

\* The registration was confirmed: success is shown and the run returns.
RegRegisterOk ==
    /\ reg.pc = "register_wait"
    /\ reg' = RegExit(reg, "registered")
    /\ UNCHANGED <<botVars, single, lifecycle, legacy>>

\* Any other read or write failed: the error reaches main's catch (the
\* legacy script's own catch for the registration), which exits with 1.
RegFail ==
    /\ reg.pc \in {"info", "balance", "allowance", "approve", "approve_wait",
                   "register", "register_wait"}
    /\ reg' = RegExit(reg, "exit(1)")
    /\ UNCHANGED <<botVars, single, lifecycle, legacy>>

InitReg ==
    /\ InitBot
    /\ vin = NoInput
    /\ vout = NoResult
    /\ single = SingleIdle
    /\ reg = RegIdle
    /\ lifecycle = LifeIdle
    /\ legacy = LegacyIdle

NextReg ==
    \/ \E program \in {"register", "legacy"} : RegStart(program)
    \/ RegInfoOk
    \/ \E operator \in {"active", "inactive", "failed"} : RegOperator(operator)
    \/ \E balance \in Amounts : RegBalanceOk(balance)
    \/ \E allowance \in Amounts : RegAllowanceOk(allowance)
    \/ RegApproveSent
    \/ RegApproveOk
    \/ RegRegisterSent
    \/ RegRegisterOk
    \/ RegFail

SpecReg == InitReg /\ [][NextReg]_vars

\* The runs of one bot of operator.js processing tasks one attempt at a time.
InitSingle ==
    /\ InitBot
    /\ vin = NoInput
    /\ vout = NoResult
    /\ single = SingleIdle
    /\ reg = RegIdle
    /\ lifecycle = LifeIdle
    /\ legacy = LegacyIdle

NextSingle ==
    \/ \E t \in TaskIds : SingleProcessTask(t)
    \/ \E linkOk \in BOOLEAN : SingleTaskOk(linkOk)
    \/ SingleTaskFail
    \/ \E merged \in JsonMerged : SingleZkOk(merged)
    \/ SingleZkFail
    \/ \E merged \in JsonMerged : SingleGithubOk(merged)
    \/ SingleGithubFail
    \/ SingleSubmitSent
    \/ SingleSubmitOk
    \/ SingleSubmitFail

SpecSingle == InitSingle /\ [][NextSingle]_vars

\* =========================================================================
\* properties
\* =========================================================================
InFlightPcs ==
    {"pt_task", "pt_claimaddr", "pt_claim", "pt_proof", "pt_submit", "pt_confirm"}
InFlight(p) == pc[p] \in InFlightPcs
Issued(p, call) == \E i \in 1..Len(calls[p]) : calls[p][i] = call
Count(p, call) == Cardinality({i \in 1..Len(calls[p]) : calls[p][i] = call})
Mine(t) == tasks[t].assignedOperator = WalletAddress

\* C1: for every task id at most one execution of the processTask pipeline
\* (between guard entry and guard release) is in flight at any time, under
\* every interleaving of the poll loop and the push handlers.
C1_AtMostOneInFlight ==
    \A t \in TaskIds : Cardinality({p \in Procs : InFlight(p) /\ tid[p] = t}) <= 1

\* The poll loop is processing a task while a task-created handler for the
\* same id is reading it.
C1_Witness ==
    \E h \in CreatedHandlers :
        /\ pc[PollLoop] = "pt_proof"
        /\ pc[h] = "cr_task"
        /\ tid[h] = tid[PollLoop]

\* C2: an attempt that entered the guard removes its id from the guard set in
\* the step in which it ends, whether it ends Done or in Error (failed task
\* read, claim read, verification or submission).
C2_ReleasedOnEveryExit ==
    [][\A p \in Procs :
          (InFlight(p) /\ pc'[p] \notin InFlightPcs) =>
              /\ pc'[p] = "pt_ret"
              /\ ret'[p] \in {"done", "error"}
              /\ ToString(tid[p]) \in processingTasks
              /\ processingTasks' = processingTasks \ {ToString(tid[p])}]_vars

\* An attempt ended in Error after its submission failed, and its id is no
\* longer guarded.
C2_Witness ==
    \E p \in Procs :
        /\ pc[p] = "pt_ret"
        /\ ret[p] = "error"
        /\ Issued(p, "submitValidation")
        /\ ToString(tid[p]) \notin processingTasks

FailsVerification(resp) ==
    \/ resp.status \in {"none", "failed"}
    \/ /\ resp.status = "answered"
       /\ \/ ~resp.data.prProofData.present
          \/ ~resp.data.userProofData.present
          \/ Len(resp.data.prProofData.contexts)
               + Len(resp.data.userProofData.contexts) < 2

\* C3: when the proof-service call fails or times out, the answer lacks a
\* proof subject, the link is malformed or extraction fails, verifyPR ends in
\* an error, not a verdict, and the attempt ends in Error without having
\* issued a submitValidation write.
C3_FailClosed ==
    \A p \in Procs :
        (vres[p] # NoVerify /\ FailsVerification(vres[p].in)) =>
            /\ ~vres[p].out.ok
            /\ pc[p] = "pt_ret"
            /\ ret[p] = "error"
            /\ ~Issued(p, "submitValidation")

\* The proof service failed and the attempt ended in Error.
C3_Witness ==
    \E p \in Procs :
        /\ vres[p].in.status = "failed"
        /\ pc[p] = "pt_ret"
        /\ ret[p] = "error"

FieldOf(fragment, f) == IF fragment.json THEN fragment[f] ELSE Absent
FragmentsOf(pl) == pl.prProofData.contexts \o pl.userProofData.contexts
Both(a, b) == a # Absent /\ b # Absent /\ a = b

\* C4: isMerged iff the PR context has a merged field that is the string
\* "true"; isValidUser iff both contexts have a login and they are equal;
\* isValidId iff both have an id and they are equal; isValid is the
\* conjunction of the three.
C4_Verdict ==
    vout.ok =>
        LET pr == FragmentsOf(vin.resp.data)[1]
            user == FragmentsOf(vin.resp.data)[2]
            facts == vout.zkProof
        IN /\ facts.isMerged = (FieldOf(pr, "merged") = Str("true"))
           /\ facts.isValidUser = Both(FieldOf(pr, "login"), FieldOf(user, "login"))
           /\ facts.isValidId = Both(FieldOf(pr, "id"), FieldOf(user, "id"))
           /\ vout.isValid =
                (facts.isMerged /\ facts.isValidUser /\ facts.isValidId)

\* A merged PR whose id matches while the PR context has no login.
C4_Witness ==
    /\ vout.ok
    /\ ~vout.isValid
    /\ vout.zkProof = [isMerged |-> TRUE, isValidUser |-> FALSE, isValidId |-> TRUE]
    /\ FieldOf(FragmentsOf(vin.resp.data)[1], "login") = Absent

OneEach(pl) ==
    /\ pl.prProofData.present
    /\ pl.userProofData.present
    /\ Len(pl.prProofData.contexts) = 1
    /\ Len(pl.userProofData.contexts) = 1

BasePayloads ==
    {[prProofData |-> Subject(<<[json |-> TRUE, merged |-> Str("true"),
                                 login |-> l, id |-> i]>>),
      userProofData |-> Subject(<<[json |-> TRUE, merged |-> Absent,
                                   login |-> l, id |-> i]>>)] :
        l \in LoginValues, i \in IdValues}

Changed(base, pl) ==
    {<<"pr", f>> : f \in {f \in {"json", "merged", "login", "id"} :
        base.prProofData.contexts[1][f] # pl.prProofData.contexts[1][f]}}
    \cup
    {<<"user", f>> : f \in {f \in {"json", "merged", "login", "id"} :
        base.userProofData.contexts[1][f] # pl.userProofData.contexts[1][f]}}

Facts(m, u, i) == [isMerged |-> m, isValidUser |-> u, isValidId |-> i]

\* C5: from a payload with merged "true" and equal logins and ids, changing
\* exactly one of merged (to "false"), a login or an id makes isValid false
\* and falsifies exactly the fact that depends on the changed field.
C5_SingleCause ==
    (vout # NoResult /\ vin.linkOk /\ vin.resp.status = "answered"
        /\ OneEach(vin.resp.data)) =>
        \A base \in BasePayloads :
            LET pl == vin.resp.data
                ch == Changed(base, pl)
            IN /\ ch = {} => (vout.ok /\ vout.isValid)
               /\ (ch = {<<"pr", "merged">>}
                     /\ pl.prProofData.contexts[1].merged = Str("false")) =>
                     (vout.ok /\ ~vout.isValid
                        /\ vout.zkProof = Facts(FALSE, TRUE, TRUE))
               /\ (ch \in {{<<"pr", "login">>}, {<<"user", "login">>}}) =>
                     (vout.ok /\ ~vout.isValid
                        /\ vout.zkProof = Facts(TRUE, FALSE, TRUE))
               /\ (ch \in {{<<"pr", "id">>}, {<<"user", "id">>}}) =>
                     (vout.ok /\ ~vout.isValid
                        /\ vout.zkProof = Facts(TRUE, TRUE, FALSE))

\* Only the user id differs from a valid payload: isValidId alone is false.
C5_Witness ==
    /\ vout.ok
    /\ vin.resp.status = "answered"
    /\ OneEach(vin.resp.data)
    /\ \E base \in BasePayloads : Changed(base, vin.resp.data) = {<<"user", "id">>}
    /\ vout.zkProof = Facts(TRUE, TRUE, FALSE)

FewerThanTwo(resp) ==
    /\ resp.status = "answered"
    /\ resp.data.prProofData.present
    /\ resp.data.userProofData.present
    /\ Len(FragmentsOf(resp.data)) < 2

\* C6: an answer whose two proof subjects hold fewer than two context
\* fragments makes extraction fail with an error: no verdict is produced and
\* the attempt ends in Error without a submitValidation write.
C6_FewerThanTwoFragments ==
    \A p \in Procs :
        FewerThanTwo(vres[p].in) =>
            /\ vres[p].out = Threw("Could not extract context from proof data")
            /\ pc[p] = "pt_ret"
            /\ ret[p] = "error"
            /\ ~Issued(p, "submitValidation")

\* An answer with a single context fragment ended the attempt in Error.
C6_Witness ==
    \E p \in Procs :
        /\ FewerThanTwo(vres[p].in)
        /\ Len(FragmentsOf(vres[p].in.data)) = 1
        /\ pc[p] = "pt_ret"
        /\ ret[p] = "error"


Called(p) ==
    /\ pc[p] \notin InFlightPcs
    /\ pc'[p] \in {"pt_task", "pt_ret"}

\* C7: a processTask call for an id that another activity is processing
\* returns at once as a no-op: it issues no call, leaves the guard set and the
\* oracle as they are and does not disturb the attempt in flight.
C7_ContendersAreNoOps ==
    [][\A p \in Procs :
          (Called(p) /\ \E q \in Procs \ {p} : InFlight(q) /\ tid[q] = tid'[p]) =>
              /\ pc'[p] = "pt_ret"
              /\ ret'[p] = "skipped"
              /\ calls'[p] = <<>>
              /\ processingTasks' = processingTasks
              /\ tasks' = tasks
              /\ \A q \in Procs \ {p} : pc'[q] = pc[q] /\ calls'[q] = calls[q]]_vars

\* One activity is processing a task and another one's call for the same id
\* has just returned as a no-op.
C7_Witness ==
    \E p, q \in Procs :
        /\ p # q
        /\ InFlight(q)
        /\ pc[p] = "pt_ret"
        /\ ret[p] = "skipped"
        /\ tid[p] = tid[q]

\* C8: when the read of pickUpTask shows a task that is not Pending, the call
\* returns without issuing a pickTask write; shouldProcess is true exactly
\* when the task is Assigned and assigned to this operator.
C8_NonPendingNoWrite ==
    [][\A h \in Handlers :
          (/\ pc[h] = "pu_task"
           /\ pc'[h] # "pu_task"
           /\ ret'[h] # "threw"
           /\ tasks[tid[h]].status # PENDING) =>
              /\ pc'[h] = "pu_ret"
              /\ ret'[h] = IF tasks[tid[h]].status = ASSIGNED /\ Mine(tid[h])
                           THEN "shouldProcess" ELSE "noop"
              /\ calls'[h] = <<"getTask">>
              /\ tasks' = tasks]_vars

\* pickUpTask found the task already Assigned to this operator.
C8_Witness ==
    \E h \in Handlers :
        /\ pc[h] = "pu_ret"
        /\ ret[h] = "shouldProcess"
        /\ calls[h] = <<"getTask">>
        /\ tasks[tid[h]].status = ASSIGNED

\* C9: after a pickTask failure with a conflict signature pickUpTask re-reads
\* the task and returns shouldProcess when the re-read shows this operator, a
\* no-op when it shows another operator or fails; it never throws.
C9_ConflictResolved ==
    \A h \in Handlers :
        err[h] = "conflict" =>
            /\ pc[h] \in {"pu_recheck", "pu_ret"}
            /\ Len(calls[h]) >= 3
            /\ SubSeq(calls[h], 1, 3) = <<"getTask", "pickTask", "getTask">>
            /\ pc[h] = "pu_ret" =>
                 /\ ret[h] \in {"shouldProcess", "noop"}
                 /\ ret[h] = "shouldProcess" <=>
                      (Mine(tid[h]) /\ ~Issued(h, "getTask failed"))

\* The acquisition lost a race with the auto-assignment to this operator.
C9_Witness ==
    \E h \in Handlers :
        /\ pc[h] = "pu_ret"
        /\ err[h] = "conflict"
        /\ ret[h] = "shouldProcess"

\* C10: a pickTask failure without a conflict signature is rethrown by
\* pickUpTask after that single write, and the task-created handler ends
\* without starting a processing attempt.
C10_FaultPropagates ==
    [][\A h \in Handlers :
          err[h] = "fault" =>
              /\ pc[h] = "pu_ret"
              /\ ret[h] = "threw"
              /\ calls[h] = <<"getTask", "pickTask">>
              /\ pc'[h] = "idle"
              /\ processingTasks' = processingTasks
              /\ tasks' = tasks]_vars

\* The acquisition failed for want of gas and pickUpTask threw.
C10_Witness ==
    \E h \in Handlers :
        /\ pc[h] = "pu_ret"
        /\ err[h] = "fault"
        /\ ret[h] = "threw"

\* C11: a getTask that the oracle leaves unanswered does not hang its caller:
\* at every await of it (processTask, pickUpTask and its re-read, the
\* task-created handler, the poll scan) the caller eventually goes on, and a
\* processTask attempt waiting on it either gets the task or ends in Error
\* with its id out of the guard set.
C11_GetTaskNeverHangs ==
    \A p \in Procs :
        /\ \A w \in GetTaskWaits : (pc[p] = w) ~> (pc[p] # w)
        /\ (pc[p] = "pt_task") ~>
               \/ pc[p] \in {"pt_claimaddr", "pt_claim"}
               \/ pc[p] = "pt_ret" /\ ret[p] = "error" /\ ~Guarded(tid[p])

\* The read of a processing attempt failed and the attempt ended in Error
\* with the guard released.
C11_Witness ==
    \E p \in Procs :
        /\ pc[p] = "pt_ret"
        /\ ret[p] = "error"
        /\ calls[p] = <<"getTask">>
        /\ ~Guarded(tid[p])


\* C12: a processing attempt that waits for the claim (the lookup of the
\* claim contract's address, then the claim read) does not hang: it
\* eventually goes on to the verification or ends in Error with its id out
\* of the guard set.
C12_ClaimFetchNeverHangs ==
    \A p \in Procs :
        (pc[p] \in {"pt_claimaddr", "pt_claim"}) ~>
            \/ pc[p] = "pt_proof"
            \/ pc[p] = "pt_ret" /\ ret[p] = "error" /\ ~Guarded(tid[p])


\* The task is Assigned to this operator and no attempt holds it.
Waiting(t) ==
    /\ tasks[t].status = ASSIGNED
    /\ IsAssignedToMe(tasks[t])
    /\ ~Guarded(t)

\* The poll loop has called processTask for the task.
Handed(t) ==
    /\ pc[PollLoop] \in InFlightPcs \cup {"pt_ret"}
    /\ tid[PollLoop] = t

\* C13: with every push notification dropped, a task that is Assigned to this
\* operator and not guarded while the bot runs is eventually handed to
\* processTask by the poll loop (unless the bot is stopped or the task stops
\* being Assigned to it), whatever other tasks the operator holds and
\* whatever becomes of their attempts.
C13_PollRecovers ==
    \A t \in TaskIds :
        (isRunning /\ Waiting(t)) ~>
            (Handed(t) \/ ~isRunning \/ ~Waiting(t))


\* C14: when a processing attempt of a poll iteration has ended, in Error or
\* not, and the iteration has proposed further tasks, the loop goes on to
\* call processTask for the next proposed task.
C14_AttemptsIsolated ==
    [][(pc[PollLoop] = "pt_ret" /\ pollIdx < Len(pendingTasks)) =>
          /\ pollIdx' = pollIdx + 1
          /\ tid'[PollLoop] = pendingTasks[pollIdx + 1]
          /\ pc'[PollLoop] \in {"pt_task", "pt_ret"}]_vars


\* C15: an error of a pipeline started from a push handler stays inside the
\* handler: no run of a listener callback ends as an unhandled rejection, and
\* the process is not terminated, so later notifications and the poll loop
\* go on being served.
C15_ErrorsStayInHandlers ==
    \A h \in Handlers : pc[h] \notin UnhandledRejection


\* The states of the poll loop inside its while loop.
Iterating == {"poll_list", "poll_read", "poll_sleep", "pt_ret"} \cup InFlightPcs

\* C16: an error thrown in a poll iteration does not end the poll loop: the
\* loop leaves its iterations only from the sleep with the running flag
\* false, and after a failed processing attempt, as after any sleep, it
\* starts the next iteration unless the bot is stopped.
C16_PollLoopSurvives ==
    /\ [][(pc[PollLoop] \in Iterating /\ pc'[PollLoop] \notin Iterating) =>
             /\ pc[PollLoop] = "poll_sleep"
             /\ ~isRunning
             /\ pc'[PollLoop] = "stopped"]_vars
    /\ (pc[PollLoop] = "pt_ret" /\ ret[PollLoop] = "error") ~>
           (pc[PollLoop] = "poll_list" \/ ~isRunning)
    /\ (pc[PollLoop] = "poll_sleep") ~>
           (pc[PollLoop] = "poll_list" \/ ~isRunning)

\* A processing attempt of the poll loop has just failed while the bot runs.
C16_Witness ==
    /\ isRunning
    /\ pc[PollLoop] = "pt_ret"
    /\ ret[PollLoop] = "error"


\* A processing attempt for the task has just ended in Error.
Failed(t) ==
    \E p \in Procs : pc[p] = "pt_ret" /\ ret[p] = "error" /\ tid[p] = t

\* C17: after a processing attempt for a task has failed, the guard no longer
\* holds the task and, while the bot runs and the task stays Assigned to this
\* operator, the poll loop eventually calls processTask for it again (a new
\* attempt started by a push handler is accepted as well).
C17_FailedAttemptRetried ==
    \A t \in TaskIds :
        /\ [](Failed(t) => ~Guarded(t))
        /\ (isRunning /\ Failed(t)) ~>
               \/ Handed(t) /\ ~Failed(t)
               \/ ~isRunning
               \/ ~Waiting(t)


\* The calls of a complete attempt, with or without the lookup of the claim
\* contract's address.
Steps(lookup) ==
    <<"getTask">> \o (IF lookup THEN <<"issuesClaimContract">> ELSE <<>>) \o
    <<"claims", "generate-proof", "submitValidation", "wait">>

IsPrefix(s, t) == Len(s) <= Len(t) /\ SubSeq(t, 1, Len(s)) = s

\* The call an attempt is waiting on at each of its awaits.
AwaitedCall(at) ==
    CASE at = "pt_task" -> "getTask"
      [] at = "pt_claimaddr" -> "issuesClaimContract"
      [] at = "pt_claim" -> "claims"
      [] at = "pt_proof" -> "generate-proof"
      [] at = "pt_submit" -> "submitValidation"
      [] at = "pt_confirm" -> "wait"

\* C18: an attempt issues its calls in the order task read, claim read,
\* proof request, submit-validate write, wait for the confirmation, each
\* after the one before it was answered; it holds the guard from before its
\* first call until it ends; and it completes only after the oracle has
\* confirmed the submission, having issued every step.
C18_StepOrder ==
    \A p \in Procs :
        /\ InFlight(p) =>
              /\ Guarded(tid[p])
              /\ calls[p] # <<>>
              /\ calls[p][Len(calls[p])] = AwaitedCall(pc[p])
              /\ \E lookup \in BOOLEAN : IsPrefix(calls[p], Steps(lookup))
        /\ (pc[p] = "pt_ret" /\ ret[p] = "skipped") => calls[p] = <<>>
        /\ (pc[p] = "pt_ret" /\ ret[p] = "error") =>
              \E lookup \in BOOLEAN : IsPrefix(calls[p], Steps(lookup))
        /\ (pc[p] = "pt_ret" /\ ret[p] = "done") =>
              /\ \E lookup \in BOOLEAN : calls[p] = Steps(lookup)
              /\ tasks[tid[p]].status = VALIDATED
              /\ vres[p].out.ok
              /\ ~Guarded(tid[p])

\* An attempt that looked the claim contract up has completed.
C18_Witness ==
    \E p \in Procs :
        /\ pc[p] = "pt_ret"
        /\ ret[p] = "done"
        /\ calls[p] = Steps(TRUE)


\* The proof answer of the end-to-end run: PR merged "true", PR login and id
\* equal to the user's.
GoodResponse ==
    [status |-> "answered",
     data |-> [prProofData |-> Subject(<<GoodPr>>),
               userProofData |-> Subject(<<GoodUser>>)]]

\* C19: a task-created handler waits the grace window before it reads the
\* task; when the read shows the task assigned to this operator it calls
\* processTask at once, without an acquisition; and an attempt of it that
\* ended Done on the good proof answer has issued exactly one submit-validate,
\* with verdict true and the proof blob of the three true facts, the task is
\* Validated, its id is out of the guard set, and the guard set is empty when
\* no other attempt is in flight.
C19_EndToEnd ==
    /\ [][\A h \in CreatedHandlers :
            /\ (pc[h] = "cr_grace" /\ pc'[h] # "cr_grace") =>
                  /\ pc'[h] = "cr_task"
                  /\ calls'[h] = <<"getTask">>
                  /\ processingTasks' = processingTasks
            /\ (CreatedTaskOk(h) /\ Mine(tid[h])) =>
                  /\ pc'[h] \in {"pt_task", "pt_ret"}
                  /\ tid'[h] = tid[h]
                  /\ pc'[h] = "pt_task" => TaskKey(tid[h]) \in processingTasks']_vars
    /\ [](\A h \in CreatedHandlers :
            (pc[h] = "pt_ret" /\ ret[h] = "done" /\ vres[h].in = GoodResponse) =>
                /\ vres[h].out.isValid
                /\ vres[h].out.zkProof = [isMerged |-> TRUE, isValidUser |-> TRUE,
                                          isValidId |-> TRUE]
                /\ Count(h, "submitValidation") = 1
                /\ tasks[tid[h]].status = VALIDATED
                /\ ~Guarded(tid[h])
                /\ (\A p \in Procs : ~InFlight(p)) => processingTasks = {})

\* The end-to-end run has reached Done with the guard set empty.
C19_Witness ==
    \E h \in CreatedHandlers :
        /\ pc[h] = "pt_ret"
        /\ ret[h] = "done"
        /\ vres[h].in = GoodResponse
        /\ vres[h].out.isValid
        /\ processingTasks = {}


\* An attempt has completed: processTask has returned Done or Error and its
\* task is out of the guard set.
Completed(p) ==
    /\ pc[p] = "pt_ret"
    /\ ret[p] \in {"done", "error"}
    /\ ~Guarded(tid[p])

\* C20: with the running flag false the poll loop never leaves its sleep
\* into a further poll iteration; a step that leaves the flag
\* false does not cancel an attempt in flight; and every attempt in flight
\* with the flag false runs to completion, Done or Error, with the guard
\* released.
C20_StopLetsAttemptsFinish ==
    /\ [][(~isRunning /\ pc[PollLoop] = "poll_sleep") =>
              pc'[PollLoop] # "poll_list"]_vars
    /\ [][\A p \in Procs :
              (InFlight(p) /\ ~isRunning') =>
                  \/ InFlight(p)'
                  \/ Completed(p)']_vars
    /\ \A p \in Procs : (~isRunning /\ InFlight(p)) ~> Completed(p)


\* An activity that is not suspended on anything.
Settled == {"off", "idle", "stopped", "exited", "crashed", "rejected"}

\* No continuation of a returned function is waiting to run.
Quiet == \A r \in Procs : pc[r] \notin {"pt_ret", "pu_ret"}

\* The await activity q is suspended on settles.
Resumes(q) ==
    \/ q = PollLoop /\ (StartRegistered \/ StartNotRegistered)
    \/ q = PollLoop /\ (PollListOk \/ PollListFail)
    \/ q = PollLoop /\ (PollReadOk \/ PollReadFail)
    \/ q = PollLoop /\ PollWake
    \/ PTTaskOk(q) \/ PTTaskFail(q)
    \/ PTClaimAddrOk(q) \/ PTClaimAddrFail(q)
    \/ PTClaimOk(q) \/ PTClaimFail(q)
    \/ PTProofResolve(q)
    \/ PTSubmitSent(q) \/ PTSubmitOk(q) \/ PTSubmitFail(q)
    \/ CreatedGraceOver(q)
    \/ CreatedTaskOk(q) \/ CreatedTaskFail(q)
    \/ PickUpTaskOk(q) \/ PickUpTaskFail(q)
    \/ PickTaskOk(q) \/ PickTaskConflict(q) \/ PickTaskFault(q)
    \/ PickRecheckOk(q) \/ PickRecheckFail(q)

\* C21: while an attempt is suspended on an oracle call or on the proof
\* service, the event loop serves (Alive /\ ~Returning, the guard of the
\* macrotasks in Next) every other activity that is itself suspended, a free task-created handler can be started, and a free task-assigned
\* handler can start an attempt for any unguarded task assigned to this
\* operator.
C21_NothingBlocks ==
    (Alive /\ Quiet) =>
        /\ \A q \in Procs :
              (pc[q] \notin Settled /\ \E p \in Procs \ {q} : InFlight(p)) =>
                  ENABLED (Alive /\ ~Returning /\ Resumes(q))
        /\ \A h \in CreatedHandlers :
              /\ listening
              /\ FreeHandler(h, CreatedHandlers)
              /\ \E p \in Procs \ {h} : InFlight(p)
              => \A t \in TaskIds :
                     ENABLED (Alive /\ ~Returning /\ TaskCreatedEvent(h, t))
        /\ \A h \in AssignedHandlers :
              /\ listening
              /\ FreeHandler(h, AssignedHandlers)
              /\ \E p \in Procs \ {h} : InFlight(p)
              => \A t \in TaskIds :
                     (Mine(t) /\ ~Guarded(t)) =>
                         ENABLED (Alive /\ ~Returning /\
                                  TaskAssignedEvent(h, t, WalletAddress))

\* One attempt is still suspended while another activity has completed an
\* attempt for a different task.
C21_Witness ==
    \E p \in Procs, q \in Procs :
        /\ InFlight(p)
        /\ pc[q] = "pt_ret"
        /\ ret[q] = "done"
        /\ tid[q] # tid[p]


\* The write the single-file bot's attempt has issued.
SingleSent == single.sent[Len(single.sent)]

\* C22: in the single-file bot a failed zkTLS verification call leads into the
\* GitHub fallback instead of ending the attempt, and every validation
\* submitted after it carries a blob marked as fallback with isValid equal to
\* GitHub's merged === true.
C22_FallbackMarked ==
    /\ [][(single.pc = "zk" /\ single'.zk = "failed") =>
              single'.pc = "github"]_vars
    /\ []((single.zk = "failed" /\ single.sent # <<>>) =>
              /\ SingleSent.zkProof.fallback
              /\ SingleSent.isValid = StrictlyTrue(single.github)
              /\ SingleSent.zkProof.merged = SingleSent.isValid)


RegIssued(call) == \E i \in 1..Len(reg.calls) : reg.calls[i] = call

\* The calls of the registration run after the token information.
RegStepsTaken ==
    LET IsStep(call) == call \notin {"stakeToken", "symbol"}
    IN SelectSeq(reg.calls, IsStep)

\* C23: the registerOperator write is issued only after the registration
\* check did not find the operator active, the balance read was at least the
\* stake amount, and the allowance read was sufficient or an approval was
\* confirmed; the reads and writes were issued in that order.
C23_RegisterLast ==
    RegIssued("registerOperator") =>
        /\ reg.operator \in {"inactive", "failed"}
        /\ reg.balance >= StakeAmount
        /\ \/ reg.allowance >= StakeAmount /\ ~RegIssued("approve")
           \/ reg.allowance < StakeAmount /\ reg.approved
        /\ RegStepsTaken \in
             {<<"getOperator", "balanceOf", "allowance", "registerOperator">>,
              <<"getOperator", "balanceOf", "allowance", "approve",
                "registerOperator">>}

\* A run has registered after a confirmed approval.
C23_Witness ==
    /\ reg.exit = "registered"
    /\ reg.approved
    /\ RegIssued("registerOperator")

AssignedToSelf(t) ==
    ToLowerCase(tasks[t].assignedOperator) = ToLowerCase(WalletAddress)

\* processTask has been called by activity p.
EntersProcessTask(p) == pc'[p] \in {"pt_task", "pt_ret"} /\ tid'[p] = tid[p]

\* Activity p ends with no write and no attempt.
Drops(p) ==
    /\ pc'[p] = "idle"
    /\ tasks' = tasks
    /\ processingTasks' = processingTasks

\* C25: a task-created handler has issued no oracle call while it waits the
\* grace window; it leaves the wait into one read of the task; on the answer
\* it takes one branch: assigned to this operator, processTask; else Pending,
\* pickUpTask; otherwise it drops the task; and after pickUpTask it calls
\* processTask iff the result is picked or shouldProcess, otherwise it drops
\* the task.
C25_CreatedBranches ==
    /\ [](\A h \in CreatedHandlers : pc[h] = "cr_grace" => calls[h] = <<>>)
    /\ [][\A h \in CreatedHandlers :
            /\ (pc[h] = "cr_grace" /\ pc'[h] # "cr_grace") =>
                  /\ pc'[h] = "cr_task"
                  /\ calls'[h] = <<"getTask">>
                  /\ tasks' = tasks
            /\ CreatedTaskOk(h) =>
                  IF AssignedToSelf(tid[h]) THEN EntersProcessTask(h)
                  ELSE IF tasks[tid[h]].status = PENDING
                  THEN /\ pc'[h] = "pu_task"
                       /\ tid'[h] = tid[h]
                       /\ tasks' = tasks
                       /\ processingTasks' = processingTasks
                  ELSE Drops(h)
            /\ (pc[h] = "pu_ret" /\ pc'[h] # "pu_ret") =>
                  IF ret[h] \in {"picked", "shouldProcess"}
                  THEN EntersProcessTask(h)
                  ELSE Drops(h)]_vars

\* pickUpTask has returned picked to a task-created handler.
C25_Witness ==
    \E h \in CreatedHandlers :
        /\ pc[h] = "pu_ret"
        /\ ret[h] = "picked"
        /\ Issued(h, "pickTask")


\* Sequence s is made of elements of t at increasing positions before `upto`.
InOrderOf(s, t, upto) ==
    \E f \in [1..Len(s) -> 1..Len(t)] :
        /\ \A i \in 1..Len(s) : s[i] = t[f[i]] /\ f[i] < upto
        /\ \A i, j \in 1..Len(s) : i < j => f[i] < f[j]

\* C26: each step of pollAssignedTasks (the listing answered, or a task read
\* answered) adds the task just read to the candidates iff its status is
\* Assigned, and goes on to read the first later listed id that is not in the
\* guard set at that moment; when there is none it returns the candidates,
\* which are listed ids in listing order, none of them Pending.
C26_PollProposes ==
    /\ [][(PollListOk \/ PollReadOk) =>
            LET list == IF pc[PollLoop] = "poll_list" THEN operatorTasks
                        ELSE pollList
                from == IF pc[PollLoop] = "poll_list" THEN 1 ELSE pollIdx + 1
                pend == IF /\ pc[PollLoop] = "poll_read"
                           /\ tasks[tid[PollLoop]].status = ASSIGNED
                        THEN Append(pendingTasks, tid[PollLoop])
                        ELSE pendingTasks
                rest == {j \in from..Len(list) :
                            TaskKey(list[j]) \notin processingTasks}
            IN IF rest # {}
               THEN /\ pc'[PollLoop] = "poll_read"
                    /\ pollIdx' \in rest
                    /\ \A j \in rest : pollIdx' <= j
                    /\ tid'[PollLoop] = list[pollIdx']
                    /\ pendingTasks' = pend
                    /\ pollList' = list
               ELSE IF pend = <<>>
               THEN pc'[PollLoop] = "poll_sleep"
               ELSE /\ pendingTasks' = pend
                    /\ pc'[PollLoop] \in {"pt_task", "pt_ret"}
                    /\ tid'[PollLoop] = pend[1]]_vars
    /\ [](pc[PollLoop] = "poll_read" =>
            /\ InOrderOf(pendingTasks, pollList, pollIdx)
            /\ \A i \in 1..Len(pendingTasks) :
                  tasks[pendingTasks[i]].status # PENDING)

\* A poll over two listed tasks has returned one candidate.
C26_Witness ==
    /\ pc[PollLoop] = "pt_task"
    /\ Len(operatorTasks) = 2
    /\ Len(pendingTasks) = 1
    /\ pollIdx = 1


\* A step of pollAssignedTasks: the listing or a task read settles.
Discovers ==
    \/ PollListOk \/ PollListFail
    \/ PollReadOk \/ PollReadFail
    \/ PollGetTaskTimeout

\* C27: while the poll computes its candidates it has issued reads only, and
\* no step of it, answered or failed, changes a task record, the operator's
\* listing or the guard set; the guard is entered only by the processTask the
\* loop calls for the first candidate once the list has been returned.
C27_DiscoveryIsPure ==
    /\ [](pc[PollLoop] \in {"poll_list", "poll_read"} =>
            \A i \in 1..Len(calls[PollLoop]) :
                calls[PollLoop][i] \in {"getOperatorTasks", "getTask"})
    /\ [][Discovers =>
            /\ tasks' = tasks
            /\ operatorTasks' = operatorTasks
            /\ \/ processingTasks' = processingTasks
               \/ /\ pc'[PollLoop] = "pt_task"
                  /\ pollIdx' = 1
                  /\ processingTasks' =
                        processingTasks \cup {TaskKey(pendingTasks'[1])}]_vars

\* A poll is at its second task read while an attempt holds the guard.
C27_Witness ==
    /\ pc[PollLoop] = "poll_read"
    /\ pollIdx = 2
    /\ processingTasks # {}


\* The activities that are between guard entry and guard release.
Attempts == {p \in Procs : InFlight(p)}

\* C28: in every state the guard set holds exactly the ids of the attempts in
\* flight, one attempt per id: its size is the number of attempts in flight,
\* and it is empty when there is none.
C28_GuardIsTheAttempts ==
    /\ processingTasks = {TaskKey(tid[p]) : p \in Attempts}
    /\ Cardinality(processingTasks) = Cardinality(Attempts)
    /\ Attempts = {} => processingTasks = {}

\* Two attempts, for two task ids, are in flight.
C28_Witness ==
    /\ Cardinality(Attempts) = 2
    /\ Cardinality(processingTasks) = 2


\* The proof service answered both subjects with at least two fragments
\* between them, for a well-formed link, and verifyPR has run.
Extracted ==
    /\ vout # NoResult
    /\ vin.linkOk
    /\ vin.resp.status = "answered"
    /\ vin.resp.data.prProofData.present
    /\ vin.resp.data.userProofData.present
    /\ Len(FragmentsOf(vin.resp.data)) >= 2

\* C29: a context fragment that does not parse does not abort the
\* extraction: with the PR context unparseable all three facts are false,
\* with the user context unparseable isValidUser and isValidId are false; the
\* verdict is isValid = false and verifyPR returns it without an error.
C29_UnparseableDegrades ==
    Extracted =>
        LET m == FragmentsOf(vin.resp.data)
        IN /\ ~m[1].json =>
                 /\ vout.ok
                 /\ ~vout.isValid
                 /\ vout.zkProof = Facts(FALSE, FALSE, FALSE)
           /\ ~m[2].json =>
                 /\ vout.ok
                 /\ ~vout.isValid
                 /\ ~vout.zkProof.isValidUser
                 /\ ~vout.zkProof.isValidId

\* A user context that does not parse, after a PR context that says merged:
\* isMerged alone is true.
C29_Witness ==
    /\ Extracted
    /\ ~FragmentsOf(vin.resp.data)[2].json
    /\ FragmentsOf(vin.resp.data)[2].login # Absent
    /\ vout.ok
    /\ vout.zkProof = Facts(TRUE, FALSE, FALSE)

\* C30: the verdict is the one of the payload whose PR subject holds just the
\* first fragment of the serialization and whose user subject holds just the
\* second: which subject the two fragments came from, and every fragment
\* after the second, make no difference.
C30_Positional ==
    Extracted =>
        LET m == FragmentsOf(vin.resp.data)
            first2 == [prProofData |-> Subject(<<m[1]>>),
                       userProofData |-> Subject(<<m[2]>>)]
            r == VerifyPR(TRUE, [status |-> "answered", data |-> first2])
        IN /\ vout.ok
           /\ r.ok
           /\ vout.isValid = r.isValid
           /\ vout.zkProof = r.zkProof

\* A valid verdict made from two fragments of the PR subject, while the user
\* subject's own fragment names another login.
C30_Witness ==
    /\ Extracted
    /\ Len(vin.resp.data.prProofData.contexts) = 2
    /\ Len(vin.resp.data.userProofData.contexts) = 1
    /\ vout.ok
    /\ vout.isValid
    /\ FieldOf(vin.resp.data.userProofData.contexts[1], "login")
          # FieldOf(vin.resp.data.prProofData.contexts[1], "login")


\* The message carries one of the three conflict signatures.
CarriesSignature(msg) ==
    \/ Includes(msg, "TaskAlreadyAssigned")
    \/ Includes(msg, "0x48780f5a")
    \/ Includes(msg, "0x27e1f1e5")

\* C31: an error message of a failed acquisition is classified as a conflict
\* iff it carries one of the three signatures; a failed pickTask whose message
\* carries one leads pickUpTask into the re-read of the task, and any other
\* failed pickTask makes pickUpTask throw that error with no further call.
C31_ConflictSignatures ==
    /\ [](\A msg \in ConflictMessages \cup FaultMessages :
            IsAlreadyAssigned(msg) <=> CarriesSignature(msg))
    /\ [](\A msg \in ConflictMessages : CarriesSignature(msg))
    /\ [](\A msg \in FaultMessages : ~CarriesSignature(msg))
    /\ [][\A h \in Handlers :
            (pc[h] = "pu_pick" /\ pc'[h] # "pu_pick" /\ ret'[h] # "picked") =>
                \/ /\ err'[h] = "conflict"
                   /\ pc'[h] = "pu_recheck"
                   /\ calls'[h] = Append(calls[h], "getTask")
                   /\ ret'[h] = "none"
                \/ /\ err'[h] = "fault"
                   /\ pc'[h] = "pu_ret"
                   /\ ret'[h] = "threw"
                   /\ calls'[h] = calls[h]]_vars

\* A pickTask rejected with a conflict signature is being re-read while the
\* task belongs to another operator.
C31_Witness ==
    \E h \in Handlers :
        /\ pc[h] = "pu_recheck"
        /\ err[h] = "conflict"
        /\ tasks[tid[h]].assignedOperator = OtherAddress


\* The spellings of this operator's address.
NamesThisOperator(operator) == operator \in {"0xAbCd", "0xABCD", "0xabcd"}

\* C32: a TaskAssigned notification is acted on exactly when it names this
\* operator in any letter case and the task id is not guarded; acting on it
\* enters the guard and issues the task read of one attempt and writes nothing
\* to the oracle.  Any other notification (another operator, a guarded id)
\* changes nothing.
C32_AssignedNotification ==
    /\ [](\A h \in AssignedHandlers : \A t \in TaskIds :
          \A operator \in EventOperators :
            (ENABLED TaskAssignedEvent(h, t, operator)) <=>
                /\ listening
                /\ FreeHandler(h, AssignedHandlers)
                /\ NamesThisOperator(operator)
                /\ NamesThisOperator(tasks[t].assignedOperator)
                /\ TaskKey(t) \notin processingTasks)
    /\ [][\A h \in AssignedHandlers :
            (pc[h] \in {"idle", "rejected"} /\ pc'[h] \notin {"idle", "rejected"}) =>
                /\ pc'[h] = "pt_task"
                /\ NamesThisOperator(tasks[tid'[h]].assignedOperator)
                /\ TaskKey(tid'[h]) \notin processingTasks
                /\ processingTasks' = processingTasks \cup {TaskKey(tid'[h])}
                /\ calls'[h] = <<"getTask">>
                /\ tasks' = tasks
                /\ operatorTasks' = operatorTasks]_vars

\* A notification that spells this operator's address in capitals can start
\* an attempt for one task while another task is guarded.
C32_Witness ==
    \E h \in AssignedHandlers : \E t \in TaskIds :
        /\ ENABLED TaskAssignedEvent(h, t, "0xABCD")
        /\ processingTasks # {}


\* Activity p issues the call in this step.
Issues(p, call) ==
    /\ calls'[p] # calls[p]
    /\ calls'[p] # <<>>
    /\ calls'[p][Len(calls'[p])] = call

\* C33: the acquisition write pickTask is issued only inside pickUpTask, at
\* the answer of the task read of that same call and only when that answer
\* shows Pending; the submit-validate write is issued only by an attempt that
\* holds the guard for its task id, and it holds it until the write is settled.
C33_WritesAreGated ==
    /\ [][\A p \in Procs :
            /\ Issues(p, "pickTask") =>
                 /\ p \in CreatedHandlers
                 /\ pc[p] = "pu_task"
                 /\ calls[p] = <<"getTask">>
                 /\ tasks[tid[p]].status = PENDING
                 /\ pc'[p] = "pu_pick"
            /\ Issues(p, "submitValidation") =>
                 /\ pc[p] \in InFlightPcs
                 /\ pc'[p] = "pt_submit"
                 /\ TaskKey(tid[p]) \in processingTasks
                 /\ TaskKey(tid[p]) \in processingTasks'
                 /\ \A q \in Procs \ {p} : ~(pc[q] \in InFlightPcs /\ tid[q] = tid[p])
            /\ (pc[p] = "pu_pick" /\ pc'[p] # "pu_pick" /\ tasks' # tasks) =>
                 tasks' = [tasks EXCEPT ![tid[p]] =
                              [status |-> ASSIGNED, assignedOperator |-> WalletAddress]]]_vars
    /\ [](\A p \in Procs :
            /\ pc[p] = "pu_pick" => Issued(p, "pickTask")
            /\ pc[p] \in {"pt_submit", "pt_confirm"} =>
                 /\ Issued(p, "submitValidation")
                 /\ TaskKey(tid[p]) \in processingTasks)

\* An attempt has issued its submit-validate while a task-created handler has
\* issued the acquisition write for another task.
C33_Witness ==
    \E p \in Procs : \E h \in CreatedHandlers :
        /\ pc[p] = "pt_submit"
        /\ pc[h] = "pu_pick"
        /\ tid[h] # tid[p]


\* C34: a submit-validate is confirmed for a task at most once (a confirmation
\* never lands on a task that is already Validated), and a task that is
\* already Validated is not verified and submitted again, neither by a
\* task-created handler that wakes from its grace period nor by a poll
\* iteration that works through the candidate list it read earlier.
C34_ValidatedOnce ==
    /\ [][\A p \in Procs :
            (pc[p] = "pt_confirm" /\ ret'[p] = "done") =>
                tasks[tid[p]].status # VALIDATED]_vars
    /\ [](\A p \in {PollLoop} \cup CreatedHandlers :
            pc[p] \in {"pt_proof", "pt_submit", "pt_confirm"} =>
                tasks[tid[p]].status # VALIDATED)

\* The task an attempt works on is not changed by anyone else while the
\* attempt is in flight: what the attempt read is what the oracle still holds
\* when the attempt issues its write.
ReadStaysCurrent ==
    [][\A p \in Procs :
         (pc[p] \in InFlightPcs \ {"pt_task"} /\ pc'[p] \in InFlightPcs) =>
             tasks'[tid[p]] = tasks[tid[p]]]_vars

\* C35: an attempt issues the submit-validate write only for a task that its
\* own read showed with status Assigned and assigned to this operator; stated
\* for the attempts of the poll loop and of the task-created handlers.
C35_SubmitsOnlyAssignedToSelf ==
    [][\A p \in {PollLoop} \cup CreatedHandlers :
         Issues(p, "submitValidation") =>
             /\ tasks[tid[p]].status = ASSIGNED
             /\ AssignedToSelf(tid[p])]_vars


\* C36: pickUpTask returns shouldProcess = true only when the read it has just
\* received (the first read on the not-Pending path, the re-read on the
\* conflict path) shows the task assigned to this operator with status
\* Assigned; never for a Validated task.
C36_ShouldProcessOnlyAssigned ==
    [][\A h \in Handlers :
         (/\ pc[h] \in {"pu_task", "pu_recheck"}
          /\ pc'[h] = "pu_ret"
          /\ ret'[h] = "shouldProcess") =>
             /\ AssignedToSelf(tid[h])
             /\ tasks[tid[h]].status = ASSIGNED]_vars


\* The verification of attempt p returned a verdict.
HasVerdict(p) == vres[p].out # NoResult /\ vres[p].out.ok

\* C37: the submit-validate of an attempt carries the isValid flag and the
\* blob that this attempt's verification returned, unchanged until the write
\* is settled; the flag is the conjunction of the three facts recorded in the
\* blob; and every verdict is submitted, an isValid = false one included.
C37_SubmitsTheVerdict ==
    /\ [](\A p \in Procs :
            pc[p] \in {"pt_submit", "pt_confirm"} =>
                /\ HasVerdict(p)
                /\ vres[p].in.status = "answered"
                /\ vres[p].out.isValid \in BOOLEAN
                /\ vres[p].out.isValid =
                      (/\ vres[p].out.zkProof.isMerged
                       /\ vres[p].out.zkProof.isValidUser
                       /\ vres[p].out.zkProof.isValidId))
    /\ [][\A p \in Procs :
            /\ (pc[p] \in {"pt_submit", "pt_confirm"}) => vres'[p] = vres[p]
            /\ (pc[p] = "pt_proof" /\ pc'[p] # "pt_proof") =>
                  IF vres'[p].out.ok
                  THEN pc'[p] = "pt_submit" /\ Issues(p, "submitValidation")
                  ELSE pc'[p] = "pt_ret" /\ ret'[p] = "error"
                          /\ calls'[p] = calls[p]
            /\ Issues(p, "submitValidation") =>
                  (pc[p] = "pt_proof" /\ vres'[p].out.ok)]_vars

\* The oracle has confirmed a submission whose verdict is isValid = false
\* because the PR is not merged.
C37_Witness ==
    \E p \in Procs :
        /\ pc[p] = "pt_ret"
        /\ ret[p] = "done"
        /\ HasVerdict(p)
        /\ ~vres[p].out.isValid
        /\ vres[p].out.zkProof = Facts(FALSE, TRUE, TRUE)


\* stop() has returned: the listeners were registered by start() and the
\* running flag has been cleared since.
Stopped == listening /\ ~isRunning

\* C39: once stop() has returned no push handler enters the guard with a new
\* attempt and none issues the acquisition write: a task-created or
\* task-assigned notification that arrives after stop() leaves the guard set
\* and the oracle alone.
C39_StopSilencesHandlers ==
    [][Stopped =>
         \A h \in Handlers :
             /\ ~(pc[h] # "pt_task" /\ pc'[h] = "pt_task")
             /\ ~Issues(h, "pickTask")
             /\ (pc[h] \in {"idle", "rejected"} /\ pc'[h] \notin {"idle", "rejected"}) =>
                   processingTasks' = processingTasks]_vars


\* A bot whose start() and stop() are called in any order.
NextLifecycle ==
    \/ LifeStart
    \/ LifeRegistered
    \/ LifeNotRegistered
    \/ LifeStop
    \/ \E i \in 1..MaxStarts : \E found \in BOOLEAN : LifePolled(i, found)
    \/ \E i \in 1..MaxStarts : LifeProcessed(i)
    \/ \E i \in 1..MaxStarts : LifeWake(i)

SpecLifecycle == Init /\ [][NextLifecycle]_vars

\* The poll loops that have not ended.
ActiveLoops ==
    {i \in 1..Len(lifecycle.loops) :
        lifecycle.loops[i] \in {"poll", "process", "sleep"}}

\* C38: whatever the sequence of start() and stop() calls, at most one poll
\* loop of the bot is active (polling, processing or sleeping).
C38_OnePollLoop == Cardinality(ActiveLoops) <= 1


\* The proof service's answer to the modular bot in a run whose proof
\* requests fail for the tasks in legacy.proofFails and succeed otherwise.
ProofAnswer(t) ==
    IF t \in legacy.proofFails
    THEN [status |-> "failed", error |-> "timeout of 120000ms exceeded"]
    ELSE GoodResponse

\* The modular bot and the single-file bot run one poll iteration each, from
\* the same oracle state and with the same answers: every oracle call is
\* answered, the PR links are well formed, and the proof request fails for
\* the same tasks.
NextRefine ==
    \/ \E t \in TaskIds, o \in {WalletAddress, OtherAddress} :
          legacy.pc = "off" /\ pc[PollLoop] = "off" /\ OracleAssign(t, o)
    \/ \E fails \in SUBSET TaskIds : LegacyStart(fails)
    \/ LegacyRegistered
    \/ LegacyListOk
    \/ LegacyReadOk
    \/ LegacyAnswered
    \/ LegacyProof
    \/ \E answer \in {"merged", "open", "failed"} : LegacyGithub(answer)
    \/ LegacySubmitOk
    \/ legacy.pc # "off" /\ Start
    \/ StartRegistered
    \/ PollListOk
    \/ PollReadOk
    \/ PTTaskOk(PollLoop)
    \/ PTClaimAddrOk(PollLoop)
    \/ PTClaimOk(PollLoop) /\ pc'[PollLoop] = "pt_proof"
    \/ PTProofResolve(PollLoop) /\ vres'[PollLoop].in = ProofAnswer(tid[PollLoop])
    \/ PTSubmitSent(PollLoop)
    \/ PTSubmitOk(PollLoop)
    \/ PollReturn

SpecRefine == Init /\ [][NextRefine]_vars

\* Both bots have finished their first poll iteration.
BothAsleep == pc[PollLoop] = "poll_sleep" /\ legacy.pc = "sleep"

\* C40: run from the same oracle state with the same answers, the modular
\* bot and the single-file bot it was refactored from have issued the same
\* submit-validate writes when their poll iteration is over: the same tasks
\* are Validated on either side, also when a processing attempt has failed.
C40_SameWrites == BothAsleep => tasks = legacy.tasks

====
